---- MODULE Spec2Model ----
(***************************************************************************)
(* SAU-Net: the cross-slice fusion encoder (mix_transformer_sa.py) and the *)
(* training loop (trainer.py).                                             *)
(*                                                                         *)
(* Six state machines share this module, each with its own variables and   *)
(* its own specification:                                                  *)
(*   SpecWin    window_partition / window_unpartition on a labelled tensor *)
(*   SpecNL     NonLocalBlock.forward, index by index                      *)
(*   SpecFwd    MixVisionTransformerSAEncoder.forward, statement by        *)
(*              statement, on symbolic features with their shapes          *)
(*   SpecTrain  trainer_coca, one loop iteration per step                  *)
(*   SpecDpr    MixVisionTransformer.__init__, the drop path rates of its  *)
(*              blocks, stage by stage                                     *)
(*   SpecAttn   Attention.forward, statement by statement, on symbolic     *)
(*              tensors with their shapes                                  *)
(***************************************************************************)
EXTENDS Integers, Sequences, FiniteSets, TLC

VARIABLES
    \* ---- window_partition / window_unpartition
    win_pc,        \* "start" | "partitioned" | "restored" | "error"
    win_x,         \* the feature map x handed to window_partition
    win_ws,        \* window_size
    win_parts,     \* window_partition(x, ws)
    win_back,      \* window_unpartition(win_parts, ws, H, W, B)
    \* ---- NonLocalBlock.forward
    nl_pc,         \* the statement forward has reached
    nl_self,       \* the block: its constructor's fields
    nl_this,       \* x_thisBranch
    nl_other,      \* x_otherBranch
    nl_this_win,   \* x_this_win
    nl_other_win,  \* x_other_win
    nl_query,      \* query
    nl_key,        \* key
    nl_value,      \* value
    nl_weights,    \* attention_weights
    nl_out,        \* out
    nl_x_un,       \* x_un
    nl_z,          \* z
    \* ---- MixVisionTransformerSAEncoder.forward
    fwd_pc,        \* the statement forward has reached
    fwd_self,      \* the encoder: the constructor arguments forward depends on
    fwd_x,         \* the input x
    fwd_prev,      \* x_prev
    fwd_main,      \* x_main
    fwd_next,      \* x_next
    fwd_xt,        \* <<xt1, xt2, xt3>>
    fwd_features,  \* features
    fwd_calls,     \* the calls of non-local blocks so far, in order
    fwd_result,    \* what forward returned
    \* ---- trainer_coca
    tr_pc,         \* "epoch" | "train" | "val" | "returned" | "raised"
    tr_args,       \* max_epochs, batch_size, len(db_train), len(db_val)
    tr_epoch_num,  \* epoch_num
    tr_i_train,    \* i_batch of the training loop
    tr_i_val,      \* i_batch of the validation loop
    tr_iter_num,   \* iter_num
    tr_steps,      \* the calls on model, optimizer, scaler and scheduler, counted
    tr_mode,       \* model.training: "train" | "eval"
    tr_last,       \* the batch processed last: its phase, the model's mode, its calls
    tr_val_loss,   \* val_loss
    tr_best_val_loss,    \* best_val_loss
    tr_best_model_path,  \* best_model_path
    tr_files,      \* the checkpoint files of snapshot_path
    tr_fs,         \* os.remove and torch.save so far, in order
    tr_writer,     \* the SummaryWriter: its scalars, its images, whether open
    tr_epochs,     \* the batches each completed epoch processed
    tr_result,     \* what trainer_coca returned
    \* ---- MixVisionTransformer.__init__, the transformer encoder
    dpr_pc,        \* "start" | "block1" .. "block4" | "done"
    dpr_args,      \* depths and drop_path_rate
    dpr_dpr,       \* dpr
    dpr_cur,       \* cur
    dpr_blocks,    \* <<self.block1, self.block2, self.block3, self.block4>> so far
    \* ---- Attention.forward
    att_pc,        \* the statement forward has reached
    att_self,      \* the attention: dim, num_heads, sr_ratio
    att_HW,        \* <<H, W>>
    att_x,         \* the input x
    att_q,         \* q
    att_x_,        \* x_, what the keys and values are computed from
    att_kv,        \* kv
    att_attn,      \* attn
    att_out        \* what forward returned

winVars == <<win_pc, win_x, win_ws, win_parts, win_back>>

nlVars == <<nl_pc, nl_self, nl_this, nl_other, nl_this_win, nl_other_win,
            nl_query, nl_key, nl_value, nl_weights, nl_out, nl_x_un, nl_z>>

fwdVars == <<fwd_pc, fwd_self, fwd_x, fwd_prev, fwd_main, fwd_next, fwd_xt,
             fwd_features, fwd_calls, fwd_result>>

trVars == <<tr_pc, tr_args, tr_epoch_num, tr_i_train, tr_i_val, tr_iter_num,
            tr_steps, tr_mode, tr_last, tr_val_loss, tr_best_val_loss,
            tr_best_model_path, tr_files, tr_fs, tr_writer, tr_epochs, tr_result>>

dprVars == <<dpr_pc, dpr_args, dpr_dpr, dpr_cur, dpr_blocks>>

attVars == <<att_pc, att_self, att_HW, att_x, att_q, att_x_, att_kv, att_attn, att_out>>

vars == <<winVars, nlVars, fwdVars, trVars, dprVars, attVars>>

\* What a step of one machine leaves alone: the other machines.
winFrame == <<nlVars, fwdVars, trVars, dprVars, attVars>>
nlFrame == <<winVars, fwdVars, trVars, dprVars, attVars>>
fwdFrame == <<winVars, nlVars, trVars, dprVars, attVars>>
trFrame == <<winVars, nlVars, fwdVars, dprVars, attVars>>
dprFrame == <<winVars, nlVars, fwdVars, trVars, attVars>>
attFrame == <<winVars, nlVars, fwdVars, trVars, dprVars>>

(***************************************************************************)
(* Tensors.  A contiguous tensor is its shape and its elements in          *)
(* row-major order, numbered from 0 as torch numbers them.                 *)
(***************************************************************************)

\* The number of elements of a tensor of this shape.
RECURSIVE Numel(_)
Numel(shape) ==
    IF Len(shape) = 0 THEN 1 ELSE Head(shape) * Numel(Tail(shape))

\* The row-major stride of dimension k (1-based) of a contiguous tensor.
RECURSIVE Stride(_, _)
Stride(shape, k) ==
    IF k >= Len(shape) THEN 1 ELSE shape[k + 1] * Stride(shape, k + 1)

\* The offset of the element at multi-index idx.
RECURSIVE FlatFrom(_, _, _)
FlatFrom(idx, shape, k) ==
    IF k > Len(shape) THEN 0
    ELSE idx[k] * Stride(shape, k) + FlatFrom(idx, shape, k + 1)

Flat(idx, shape) == FlatFrom(idx, shape, 1)

\* The multi-index of the element at offset i.
Unflat(i, shape) ==
    [k \in 1..Len(shape) |-> (i \div Stride(shape, k)) % shape[k]]

Tensor(shape, data) == [ok |-> TRUE, shape |-> shape, data |-> data]

\* What an operation leaves when it raises.
Raised == [ok |-> FALSE, shape |-> <<>>, data |-> <<>>]

\* t[idx]
At(t, idx) == t.data[Flat(idx, t.shape)]

\* torch.Tensor.view on a contiguous tensor: the same elements in the same
\* order under a new shape; raises when the shape does not hold them all.
View(t, shape) ==
    IF ~t.ok THEN Raised
    ELSE IF Numel(shape) # Numel(t.shape) THEN Raised
    ELSE Tensor(shape, t.data)

\* x.permute(*perm).contiguous(): dimension k of the result is dimension
\* perm[k] (numbered from 0) of x.
PermuteContiguous(t, perm) ==
    IF ~t.ok THEN Raised
    ELSE
        LET shape == [k \in 1..Len(perm) |-> t.shape[perm[k] + 1]]
            \* where dimension d of x goes
            to == [d \in 1..Len(perm) |-> CHOOSE k \in 1..Len(perm) : perm[k] + 1 = d]
            src(i) ==
                LET m == Unflat(i, shape)
                IN  Flat([d \in 1..Len(perm) |-> m[to[d]]], t.shape)
        IN  Tensor(shape, [i \in 0..(Numel(shape) - 1) |-> t.data[src(i)]])

\* Broadcasting of two sizes of a dimension: equal sizes, or one of them 1;
\* -1 when torch raises.
BroadcastSize(m, n) ==
    IF m = n THEN m ELSE IF m = 1 THEN n ELSE IF n = 1 THEN m ELSE -1

\* Broadcasting of two shapes of the same number of dimensions, <<>> when
\* torch raises.
BroadcastShape(a, b) ==
    IF Len(a) # Len(b) \/ \E k \in 1..Len(a) : BroadcastSize(a[k], b[k]) = -1 THEN <<>>
    ELSE [k \in 1..Len(a) |-> BroadcastSize(a[k], b[k])]

\* The index of a broadcast tensor that index i of the result reads.
BroadcastIndex(i, size) == IF size = 1 THEN 0 ELSE i

(***************************************************************************)
(* window_partition and window_unpartition                                 *)
(***************************************************************************)

\* The mutant of window_partition: the windows are cut without the permute,
\* so that a window holds a run of the flat feature map.
window_partition_noPermute(x, window_size) ==
    IF ~x.ok THEN Raised
    ELSE
        LET B == x.shape[1]
            C == x.shape[2]
            num_win_h == x.shape[3] \div window_size
            num_win_w == x.shape[4] \div window_size
        IN  View(View(x, <<B, C, num_win_h, window_size, num_win_w, window_size>>),
                 <<B * num_win_h * num_win_w, C, window_size, window_size>>)

window_partition(x, window_size) ==
    IF ~x.ok THEN Raised
    ELSE
        LET B == x.shape[1]
            C == x.shape[2]
            H == x.shape[3]
            W == x.shape[4]
            num_win_h == H \div window_size
            num_win_w == W \div window_size
            v == View(x, <<B, C, num_win_h, window_size, num_win_w, window_size>>)
            p == PermuteContiguous(v, <<0, 2, 4, 1, 3, 5>>)
        IN  View(p, <<B * num_win_h * num_win_w, C, window_size, window_size>>)

\* The mutant of window_unpartition: the rows and the columns of windows
\* change places (permute(0, 3, 2, 4, 1, 5)).
window_unpartition_transposed(x, window_size, H, W, B) ==
    IF ~x.ok THEN Raised
    ELSE
        LET C == x.shape[2]
            num_win_h == H \div window_size
            num_win_w == W \div window_size
            v == View(x, <<B, num_win_h, num_win_w, C, window_size, window_size>>)
            p == PermuteContiguous(v, <<0, 3, 2, 4, 1, 5>>)
        IN  View(p, <<B, C, H, W>>)

window_unpartition(x, window_size, H, W, B) ==
    IF ~x.ok THEN Raised
    ELSE
        LET C == x.shape[2]
            num_win_h == H \div window_size
            num_win_w == W \div window_size
            v == View(x, <<B, num_win_h, num_win_w, C, window_size, window_size>>)
            p == PermuteContiguous(v, <<0, 3, 1, 4, 2, 5>>)
        IN  View(p, <<B, C, H, W>>)


(***************************************************************************)
(* The layers NonLocalBlock is built from.  A layer's output element is    *)
(* the term that computes it, over the elements of the layer's input.      *)
(***************************************************************************)

\* nn.Conv2d(in_channels, out_channels, kernel_size=1) named `conv`: output
\* channel oc at a pixel is a function of all input channels of that pixel.
\* Raises when the input does not have in_channels channels.
Conv1x1(conv, in_channels, out_channels, x) ==
    IF ~x.ok THEN Raised
    ELSE IF x.shape[2] # in_channels THEN Raised
    ELSE
        LET shape == <<x.shape[1], out_channels, x.shape[3], x.shape[4]>>
            el(i) ==
                LET m == Unflat(i, shape)
                IN  [conv |-> conv, oc |-> m[2], tok |-> -1,
                     inp |-> [c \in 1..in_channels |->
                                 At(x, <<m[1], c - 1, m[3], m[4]>>)]]
        IN  Tensor(shape, [i \in 0..(Numel(shape) - 1) |-> el(i)])

\* nn.Parameter(torch.randn(num_global_tokens, inter_channels))
GlobalTokensParam(num_global_tokens, inter_channels) ==
    LET shape == <<num_global_tokens, inter_channels>>
        el(i) == [conv |-> "global_tokens", oc |-> Unflat(i, shape)[2],
                  tok |-> Unflat(i, shape)[1], inp |-> <<>>]
    IN  Tensor(shape, [i \in 0..(Numel(shape) - 1) |-> el(i)])

\* t.unsqueeze(0).expand(n, -1, -1): n copies of a 2-d tensor.
UnsqueezeExpand(t, n) ==
    LET shape == <<n, t.shape[1], t.shape[2]>>
    IN  Tensor(shape, [i \in 0..(Numel(shape) - 1) |->
                          At(t, <<Unflat(i, shape)[2], Unflat(i, shape)[3]>>)])

\* torch.cat([a, b], dim=2) of two 4-d tensors.
Cat2(a, b) ==
    IF ~a.ok \/ ~b.ok THEN Raised
    ELSE IF <<a.shape[1], a.shape[2], a.shape[4]>> # <<b.shape[1], b.shape[2], b.shape[4]>>
    THEN Raised
    ELSE
        LET shape == <<a.shape[1], a.shape[2], a.shape[3] + b.shape[3], a.shape[4]>>
            el(i) ==
                LET m == Unflat(i, shape)
                IN  IF m[3] < a.shape[3] THEN At(a, m)
                    ELSE At(b, <<m[1], m[2], m[3] - a.shape[3], m[4]>>)
        IN  Tensor(shape, [i \in 0..(Numel(shape) - 1) |-> el(i)])

\* torch.matmul(a, b) of two 4-d tensors: element (p, q, i, d) is the sum
\* over j of a[p, q, i, j] * b[p, q, j, d], kept as its list of products.
\* The first two dimensions broadcast.
MatMul(a, b) ==
    IF ~a.ok \/ ~b.ok THEN Raised
    ELSE IF a.shape[4] # b.shape[3] THEN Raised
    ELSE IF BroadcastShape(SubSeq(a.shape, 1, 2), SubSeq(b.shape, 1, 2)) = <<>> THEN Raised
    ELSE
        LET batch == BroadcastShape(SubSeq(a.shape, 1, 2), SubSeq(b.shape, 1, 2))
            shape == <<batch[1], batch[2], a.shape[3], b.shape[4]>>
            el(i) ==
                LET m == Unflat(i, shape)
                IN  [j \in 1..a.shape[4] |->
                        <<At(a, <<BroadcastIndex(m[1], a.shape[1]),
                                  BroadcastIndex(m[2], a.shape[2]), m[3], j - 1>>),
                          At(b, <<BroadcastIndex(m[1], b.shape[1]),
                                  BroadcastIndex(m[2], b.shape[2]), j - 1, m[4]>>)>>]
        IN  Tensor(shape, [i \in 0..(Numel(shape) - 1) |-> el(i)])

\* F.softmax(t / (head_dim ** 0.5), dim=-1): an element is normalised over
\* the elements that share its first three indices.
ScaledSoftmax(t, head_dim) ==
    IF ~t.ok THEN Raised
    ELSE Tensor(t.shape,
                [i \in 0..(Numel(t.shape) - 1) |->
                    [score |-> t.data[i], scale |-> head_dim,
                     over |-> SubSeq(Unflat(i, t.shape), 1, 3)]])

\* t[:, :, from:, :]
SliceDim2(t, from) ==
    IF ~t.ok THEN Raised
    ELSE
        LET shape == <<t.shape[1], t.shape[2], t.shape[3] - from, t.shape[4]>>
        IN  Tensor(shape, [i \in 0..(Numel(shape) - 1) |->
                              LET m == Unflat(i, shape)
                              IN  At(t, <<m[1], m[2], m[3] + from, m[4]>>)])

\* nn.BatchNorm2d: an element is normalised with the statistics of its
\* channel.  In training mode it raises ("Expected more than 1 value per
\* channel when training") on a batch with one value a channel, B*H*W = 1.
BatchNorm2d(t, training) ==
    IF ~t.ok THEN Raised
    ELSE IF training /\ t.shape[1] * t.shape[3] * t.shape[4] = 1 THEN Raised
    ELSE Tensor(t.shape,
                [i \in 0..(Numel(t.shape) - 1) |->
                    [bn |-> Unflat(i, t.shape)[2], x |-> t.data[i]]])

(***************************************************************************)
(* NonLocalBlock                                                           *)
(***************************************************************************)

\* NonLocalBlock.__init__: the fields forward reads.  inter_channels = 0
\* stands for the default None.  A module is in training mode after its
\* construction.
NonLocalBlockInit(in_channels, inter_channels, num_heads, window_size, num_global_tokens) ==
    LET inter == IF inter_channels # 0 THEN inter_channels ELSE in_channels \div 2
    IN  [in_channels |-> in_channels,
         inter_channels |-> inter,
         num_heads |-> num_heads,
         window_size |-> window_size,
         num_global_tokens |-> num_global_tokens,
         head_dim |-> inter \div num_heads,
         training |-> TRUE]

\* The assertion of __init__.
NonLocalBlockInitOK(in_channels, inter_channels, num_heads) ==
    LET inter == IF inter_channels # 0 THEN inter_channels ELSE in_channels \div 2
    IN  inter % num_heads = 0

\* query.view(B_win, num_heads, head_dim, N).permute(0, 1, 3, 2)
SplitHeads(self, t) ==
    IF ~t.ok THEN Raised
    ELSE PermuteContiguous(
            View(t, <<t.shape[1], self.num_heads, self.head_dim,
                      self.window_size * self.window_size>>),
            <<0, 1, 3, 2>>)

\* global_tokens.unsqueeze(0).expand(B_win, -1, -1)
\*              .view(B_win, num_heads, num_global_tokens, head_dim)
HeadTokens(self, B_win) ==
    View(UnsqueezeExpand(
            GlobalTokensParam(self.num_global_tokens, self.inter_channels), B_win),
         <<B_win, self.num_heads, self.num_global_tokens, self.head_dim>>)

\* Lines 104-105: the two branches are cut into windows.
NLWindows(self, x_thisBranch, x_otherBranch) ==
    [this |-> window_partition(x_thisBranch, self.window_size),
     other |-> window_partition(x_otherBranch, self.window_size)]

\* The mutant of NLProject: the branches are swapped, the query is projected
\* from x_this_win and key and value from x_other_win.
NLProject_swapped(self, x_this_win, x_other_win) ==
    [query |-> Conv1x1("query_conv", self.in_channels, self.inter_channels, x_this_win),
     key   |-> Conv1x1("key_conv", self.in_channels, self.inter_channels, x_other_win),
     value |-> Conv1x1("value_conv", self.in_channels, self.inter_channels, x_other_win)]

\* Lines 108-110: query, key and value.
NLProject(self, x_this_win, x_other_win) ==
    [query |-> Conv1x1("query_conv", self.in_channels, self.inter_channels, x_other_win),
     key   |-> Conv1x1("key_conv", self.in_channels, self.inter_channels, x_this_win),
     value |-> Conv1x1("value_conv", self.in_channels, self.inter_channels, x_this_win)]

\* Lines 121-125: the global tokens are put before the rows of t.
NLPrepend(self, t) == Cat2(HeadTokens(self, t.shape[1]), t)

\* Lines 128-129: attention_weights.
NLWeights(self, query, key) ==
    ScaledSoftmax(MatMul(query, PermuteContiguous(key, <<0, 1, 3, 2>>)), self.head_dim)

\* The mutant of NLStrip: the rows of the global tokens are kept.
NLStrip_keepTokens(self, out) ==
    View(PermuteContiguous(out, <<0, 1, 3, 2>>),
         <<out.shape[1], self.inter_channels, self.window_size, self.window_size>>)

\* Lines 133-134: the rows of the global tokens are dropped and the heads
\* are merged back into channels.
NLStrip(self, out) ==
    View(PermuteContiguous(SliceDim2(out, self.num_global_tokens), <<0, 1, 3, 2>>),
         <<out.shape[1], self.inter_channels, self.window_size, self.window_size>>)

\* self.W_z: a 1x1 convolution without bias, then batch normalisation.
W_z(self, x) ==
    BatchNorm2d(Conv1x1("W_z", self.inter_channels, self.in_channels, x), self.training)

(***************************************************************************)
(* MixVisionTransformerSAEncoder.  A feature is the term that computes it, *)
(* in prefix form (a layer's name, then its arguments), with its shape.    *)
(***************************************************************************)

Feature(term, shape) == [ok |-> TRUE, term |-> term, shape |-> shape]

\* What a layer leaves when it raises.
NoFeature == [ok |-> FALSE, term |-> <<>>, shape |-> <<>>]

\* The output size of nn.Conv2d along one side.
ConvOut(size, kernel, stride, padding) ==
    (size + 2 * padding - kernel) \div stride + 1

\* window_size, num_heads and num_global_tokens of the six non-local blocks.
EncWindowSize == 16
EncNumHeads == 16
EncNumGlobalTokens == 1

\* sr_ratios and depths as MixVisionTransformer.__init__ defaults them.
SrRatios == <<8, 4, 2, 1>>
Depths == <<3, 4, 6, 3>>

\* OverlapPatchEmbed k of MixVisionTransformer.__init__: kernel, stride,
\* padding = kernel // 2, input channels.
PatchEmbedArgs(self, k) ==
    IF k = 1 THEN [kernel |-> 7, stride |-> 4, padding |-> 3, in_chans |-> self.in_chans]
    ELSE [kernel |-> 3, stride |-> 2, padding |-> 1, in_chans |-> self.embed_dims[k - 1]]

StageNames ==
    <<<<"norm1", "block1", "patch_embed1">>, <<"norm2", "block2", "patch_embed2">>,
      <<"norm3", "block3", "patch_embed3">>, <<"norm4", "block4", "patch_embed4">>>>

\* x = self.norm_k(self.block_k(self.patch_embed_k(x))).contiguous()
\* The projection raises on a wrong number of channels, and the spatial
\* reduction of Attention (a convolution of kernel and stride sr_ratio)
\* raises on a feature map smaller than its kernel.
Stage(self, k, f) ==
    IF ~f.ok THEN NoFeature
    ELSE
        LET a == PatchEmbedArgs(self, k)
            H == ConvOut(f.shape[3], a.kernel, a.stride, a.padding)
            W == ConvOut(f.shape[4], a.kernel, a.stride, a.padding)
        IN  IF f.shape[2] # a.in_chans THEN NoFeature
            ELSE IF Depths[k] > 0 /\ SrRatios[k] > 1 /\ (H < SrRatios[k] \/ W < SrRatios[k])
            THEN NoFeature
            ELSE Feature(StageNames[k] \o f.term,
                         <<f.shape[1], self.embed_dims[k], H, W>>)

\* x[:, c:c+1, :, :]
SliceNames == <<"x[:,0:1]", "x[:,1:2]", "x[:,2:3]">>

\* The mutant of Slice: the slices are taken one channel further.
Slice_shifted(x, c) ==
    Feature(<<SliceNames[((c + 1) % 3) + 1]>> \o x.term,
            <<x.shape[1], IF (c + 1) % 3 < x.shape[2] THEN 1 ELSE 0, x.shape[3], x.shape[4]>>)

Slice(x, c) ==
    Feature(<<SliceNames[c + 1]>> \o x.term,
            <<x.shape[1], IF c < x.shape[2] THEN 1 ELSE 0, x.shape[3], x.shape[4]>>)

\* The non-local blocks of __init__, by stage: in_channels of the three
\* blocks, the channels compress takes and gives.
FusionArgs(stage) ==
    IF stage = 3
    THEN [in_channels |-> 320, inter_channels |-> 160, cat |-> 960, out |-> 320,
          blocks |-> <<"cross_attention_prev_3", "cross_attention_self_3",
                       "cross_attention_next_3">>,
          compress |-> "compress_3", double_conv |-> "double_conv_3"]
    ELSE [in_channels |-> 512, inter_channels |-> 256, cat |-> 1536, out |-> 512,
          blocks |-> <<"cross_attention_prev_4", "cross_attention_self_4",
                       "cross_attention_next_4">>,
          compress |-> "compress_4", double_conv |-> "double_conv_4"]

\* The mutant of WindowsShape: the rows and columns that fill no window are
\* dropped without an error.
WindowsShape_dropping(shape, window_size) ==
    LET num_win_h == shape[3] \div window_size
        num_win_w == shape[4] \div window_size
    IN  <<shape[1] * num_win_h * num_win_w, shape[2], window_size, window_size>>

\* The shape window_partition gives, <<>> when its view raises.
WindowsShape(shape, window_size) ==
    LET num_win_h == shape[3] \div window_size
        num_win_w == shape[4] \div window_size
    IN  IF Numel(<<shape[1], shape[2], num_win_h, window_size, num_win_w, window_size>>)
              # Numel(shape)
        THEN <<>>
        ELSE <<shape[1] * num_win_h * num_win_w, shape[2], window_size, window_size>>

\* NonLocalBlock.forward(x_thisBranch, x_otherBranch)[0] of the block `name`
\* on features: it raises when a branch cannot be cut into windows, when a
\* branch has not in_channels channels, when the windows of the two
\* branches differ in number and, in training mode, when the batch
\* normalisation of W_z gets one value a channel.
NonLocal(name, in_channels, window_size, training, x_thisBranch, x_otherBranch) ==
    IF ~x_thisBranch.ok \/ ~x_otherBranch.ok THEN NoFeature
    ELSE
        LET tw == WindowsShape(x_thisBranch.shape, window_size)
            ow == WindowsShape(x_otherBranch.shape, window_size)
        IN  IF tw = <<>> \/ ow = <<>> THEN NoFeature
            ELSE IF tw[2] # in_channels \/ ow[2] # in_channels THEN NoFeature
            ELSE IF tw[1] # ow[1] THEN NoFeature
            ELSE IF training /\ x_thisBranch.shape[1] * x_thisBranch.shape[3]
                                    * x_thisBranch.shape[4] = 1
            THEN NoFeature
            ELSE Feature(<<name>> \o x_thisBranch.term \o x_otherBranch.term,
                         <<x_thisBranch.shape[1], in_channels,
                           x_thisBranch.shape[3], x_thisBranch.shape[4]>>)

\* The mutant of CrossCalls: the branches are handed over in the other
\* order, the slice first.
CrossCalls_swapped(stage, x_prev, x_main, x_next) ==
    <<[block |-> FusionArgs(stage).blocks[1], this |-> x_prev, other |-> x_main],
      [block |-> FusionArgs(stage).blocks[2], this |-> x_main, other |-> x_main],
      [block |-> FusionArgs(stage).blocks[3], this |-> x_next, other |-> x_main]>>

\* Lines 770-772 and 797-799: the three calls, in order.
CrossCalls(stage, x_prev, x_main, x_next) ==
    <<[block |-> FusionArgs(stage).blocks[1], this |-> x_main, other |-> x_prev],
      [block |-> FusionArgs(stage).blocks[2], this |-> x_main, other |-> x_main],
      [block |-> FusionArgs(stage).blocks[3], this |-> x_main, other |-> x_next]>>

\* The mutant of Fuse: the residual is left out.
Fuse_noResidual(stage, training, xt, x_main) ==
    IF ~xt[1].ok \/ ~xt[2].ok \/ ~xt[3].ok \/ ~x_main.ok THEN NoFeature
    ELSE Feature(<<FusionArgs(stage).double_conv, FusionArgs(stage).compress, "cat">>
                    \o xt[1].term \o xt[2].term \o xt[3].term,
                 <<xt[1].shape[1], FusionArgs(stage).out, xt[1].shape[3], xt[1].shape[4]>>)

\* Lines 774-778 and 801-805:
\* x_main = double_conv(compress(cat([xt1, xt2, xt3], dim=1))) + x_main
\* torch.cat raises when the three differ in a size other than the channels,
\* compress when the channels are not those it was built for, the batch
\* normalisation of double_conv in training mode on one value a channel, and
\* the sum when the shapes do not broadcast.
Fuse(stage, training, xt, x_main) ==
    IF ~xt[1].ok \/ ~xt[2].ok \/ ~xt[3].ok \/ ~x_main.ok THEN NoFeature
    ELSE
        LET a == FusionArgs(stage)
            channels == xt[1].shape[2] + xt[2].shape[2] + xt[3].shape[2]
            down == <<xt[1].shape[1], a.out, xt[1].shape[3], xt[1].shape[4]>>
            rest(t) == <<t.shape[1], t.shape[3], t.shape[4]>>
        IN  IF rest(xt[2]) # rest(xt[1]) \/ rest(xt[3]) # rest(xt[1]) THEN NoFeature
            ELSE IF channels # a.cat THEN NoFeature
            ELSE IF training /\ down[1] * down[3] * down[4] = 1 THEN NoFeature
            ELSE IF BroadcastShape(down, x_main.shape) = <<>> THEN NoFeature
            ELSE Feature(<<"add", a.double_conv, a.compress, "cat">>
                            \o xt[1].term \o xt[2].term \o xt[3].term \o x_main.term,
                         BroadcastShape(down, x_main.shape))

\* torch.empty([B, 0, H // 2, W // 2])
Dummy(x) ==
    Feature(<<"empty">>, <<x.shape[1], 0, x.shape[3] \div 2, x.shape[4] \div 2>>)

\* The mutant of Returned: the list is cut to depth + 1 features.
Returned_cutToDepth(self, features) ==
    SubSeq(features, 1, IF self.depth + 1 < Len(features) THEN self.depth + 1
                        ELSE Len(features))

\* Line 809: return features
Returned(self, features) == features


(***************************************************************************)
(* MixVisionTransformer.__init__: the stochastic depth decay rule.  A rate  *)
(* is the fraction num / den, so that evenly spaced rates are exact.       *)
(***************************************************************************)

Rate(num, den) == [num |-> num, den |-> den]

RateEq(a, b) == a.num * b.den = b.num * a.den

RateLeq(a, b) == a.num * b.den <= b.num * a.den

\* sum(depths)
Sum(depths) == depths[1] + depths[2] + depths[3] + depths[4]

\* [x.item() for x in torch.linspace(0, drop_path_rate, steps)]: steps
\* values from 0 to drop_path_rate, a step of drop_path_rate / (steps - 1)
\* apart; the single value of steps = 1 is the start, 0.
linspace(end, steps) ==
    [k \in 1..steps |->
        IF steps = 1 THEN Rate(0, 1) ELSE Rate(end.num * (k - 1), end.den * (steps - 1))]

\* embed_dims and num_heads as MixVisionTransformer.__init__ defaults them.
EmbedDims == <<64, 128, 256, 512>>
NumHeads == <<1, 2, 4, 8>>

\* Block.__init__, line 326:
\* self.drop_path = DropPath(drop_path) if drop_path > 0.0 else nn.Identity()
Block(dim, num_heads, drop_path, sr_ratio) ==
    [dim |-> dim, num_heads |-> num_heads, sr_ratio |-> sr_ratio,
     drop_path_arg |-> drop_path,
     drop_path |-> IF drop_path.num > 0
                   THEN [module |-> "DropPath", drop_prob |-> drop_path]
                   ELSE [module |-> "Identity"]]

\* The mutant of BlocksOfStage: every stage starts again at the first rate
\* (dpr[i] for dpr[cur + i]).
BlocksOfStage_fromZero(depths, dpr, cur, k) ==
    [i \in 1..depths[k] |-> Block(EmbedDims[k], NumHeads[k], dpr[i], SrRatios[k])]

\* self.block_k = nn.Sequential(*[Block(..., drop_path=dpr[cur + i], ...)
\*                                for i in range(depths[k - 1])])
\* (dpr is numbered from 1 here, and so is i).
BlocksOfStage(depths, dpr, cur, k) ==
    [i \in 1..depths[k] |-> Block(EmbedDims[k], NumHeads[k], dpr[cur + i], SrRatios[k])]

\* The blocks numbered before those of stage k: the value of cur when the
\* loop over stage k runs.
CurOfStage(depths, k) ==
    IF k = 1 THEN 0
    ELSE IF k = 2 THEN depths[1]
    ELSE IF k = 3 THEN depths[1] + depths[2]
    ELSE depths[1] + depths[2] + depths[3]

\* MixVisionTransformer.reset_drop_path(drop_path_rate), lines 566-582: the
\* blocks after it.  dpr is computed anew and
\* self.block_k[i].drop_path.drop_prob = dpr[cur + i] is assigned for every
\* block of every stage; the module a block has for its drop path stays, so
\* that an nn.Identity gets an attribute drop_prob it does not read.
reset_drop_path(blocks, depths, drop_path_rate) ==
    LET dpr == linspace(drop_path_rate, Sum(depths))
    IN  [k \in 1..4 |->
            [i \in 1..depths[k] |->
                [blocks[k][i] EXCEPT
                    !.drop_path = [module |-> @.module,
                                   drop_prob |-> dpr[CurOfStage(depths, k) + i]]]]]

(***************************************************************************)
(* Attention, on features: a layer raises (NoFeature) where torch raises.  *)
(* reshape, permute and transpose move elements and leave the term alone.  *)
(***************************************************************************)

\* The product of the sizes other than -1.
Known(shape) == Numel([k \in 1..Len(shape) |-> IF shape[k] = -1 THEN 1 ELSE shape[k]])

\* f.reshape(shape), one size of which may be -1: inferred when the known
\* sizes divide the number of elements, an error otherwise.
reshape(f, shape) ==
    IF ~f.ok THEN NoFeature
    ELSE IF \E k \in 1..Len(shape) : shape[k] = -1
    THEN IF Known(shape) = 0 \/ Numel(f.shape) % Known(shape) # 0 THEN NoFeature
         ELSE Feature(f.term, [k \in 1..Len(shape) |->
                                 IF shape[k] = -1 THEN Numel(f.shape) \div Known(shape)
                                 ELSE shape[k]])
    ELSE IF Numel(shape) # Numel(f.shape) THEN NoFeature
    ELSE Feature(f.term, shape)

\* f.permute(*perm), dimensions numbered from 0.
permute(f, perm) ==
    IF ~f.ok \/ Len(perm) # Len(f.shape) THEN NoFeature
    ELSE Feature(f.term, [k \in 1..Len(perm) |-> f.shape[perm[k] + 1]])

\* nn.Linear(in_features, out_features) on the last dimension.
Linear(name, in_features, out_features, f) ==
    IF ~f.ok \/ f.shape[Len(f.shape)] # in_features THEN NoFeature
    ELSE Feature(<<name>> \o f.term,
                 [k \in 1..Len(f.shape) |-> IF k = Len(f.shape) THEN out_features
                                            ELSE f.shape[k]])

\* The class LayerNorm, lines 160-169.  A tensor of four dimensions
\* (B, C, H, W) is viewed as (B, C, H*W), transposed, normalised over its C
\* channels and put back as (B, C, H, W); any other is normalised over its
\* last dimension.  nn.LayerNorm(dim) raises when the dimension it
\* normalises has not dim elements, and view(B, C, -1) when B * C = 0.
LayerNorm(name, dim, f) ==
    IF ~f.ok THEN NoFeature
    ELSE IF Len(f.shape) = 4
    THEN IF f.shape[1] * f.shape[2] = 0 \/ f.shape[2] # dim THEN NoFeature
         ELSE Feature(<<name>> \o f.term, f.shape)
    ELSE IF f.shape[Len(f.shape)] # dim THEN NoFeature
    ELSE Feature(<<name>> \o f.term, f.shape)

\* The mutant of sr: the convolution moves by one position, not by sr_ratio.
sr_strideOne(self, f) ==
    IF ~f.ok \/ f.shape[2] # self.dim THEN NoFeature
    ELSE IF f.shape[3] < self.sr_ratio \/ f.shape[4] < self.sr_ratio THEN NoFeature
    ELSE Feature(<<"sr">> \o f.term,
                 <<f.shape[1], self.dim,
                   ConvOut(f.shape[3], self.sr_ratio, 1, 0),
                   ConvOut(f.shape[4], self.sr_ratio, 1, 0)>>)

\* self.sr = nn.Conv2d(dim, dim, kernel_size=sr_ratio, stride=sr_ratio): it
\* raises on a wrong number of channels and on a map smaller than its kernel.
sr(self, f) ==
    IF ~f.ok \/ f.shape[2] # self.dim THEN NoFeature
    ELSE IF f.shape[3] < self.sr_ratio \/ f.shape[4] < self.sr_ratio THEN NoFeature
    ELSE Feature(<<"sr">> \o f.term,
                 <<f.shape[1], self.dim,
                   ConvOut(f.shape[3], self.sr_ratio, self.sr_ratio, 0),
                   ConvOut(f.shape[4], self.sr_ratio, self.sr_ratio, 0)>>)

\* kv[i]
Index0(f, i) ==
    IF ~f.ok \/ i >= f.shape[1] THEN NoFeature
    ELSE Feature(<<IF i = 0 THEN "kv[0]" ELSE "kv[1]">> \o f.term, Tail(f.shape))

\* a @ b of two tensors of four dimensions; the first two broadcast.
matmul(a, b) ==
    IF ~a.ok \/ ~b.ok THEN NoFeature
    ELSE IF a.shape[4] # b.shape[3] THEN NoFeature
    ELSE IF BroadcastShape(SubSeq(a.shape, 1, 2), SubSeq(b.shape, 1, 2)) = <<>> THEN NoFeature
    ELSE Feature(<<"matmul">> \o a.term \o b.term,
                 BroadcastShape(SubSeq(a.shape, 1, 2), SubSeq(b.shape, 1, 2))
                     \o <<a.shape[3], b.shape[4]>>)

\* Lines 265-269: q
AttentionQ(self, x) ==
    LET B == x.shape[1]
        N == x.shape[2]
        C == x.shape[3]
    IN  permute(reshape(Linear("q", self.dim, self.dim, x),
                        <<B, N, self.num_heads, C \div self.num_heads>>),
                <<0, 2, 1, 3>>)

\* Lines 271-274 and 281: what self.kv is applied to, the reduced and
\* normalised x_ when sr_ratio > 1 and x itself otherwise.
AttentionKVInput(self, x, H, W) ==
    LET B == x.shape[1]
        C == x.shape[3]
    IN  IF self.sr_ratio > 1
        THEN LayerNorm("norm", self.dim,
                permute(reshape(sr(self, reshape(permute(x, <<0, 2, 1>>), <<B, C, H, W>>)),
                                <<B, C, -1>>),
                        <<0, 2, 1>>))
        ELSE x

\* Lines 275-279 and 280-285: kv
AttentionKV(self, x, x_) ==
    LET B == x.shape[1]
        C == x.shape[3]
    IN  permute(reshape(Linear("kv", self.dim, self.dim * 2, x_),
                        <<B, -1, 2, self.num_heads, C \div self.num_heads>>),
                <<2, 0, 3, 1, 4>>)

\* Lines 286-290: k, v = kv[0], kv[1]; attn = softmax(q @ k^T * scale)
AttentionWeights(q, kv) ==
    LET k == Index0(kv, 0)
        a == matmul(q, permute(k, <<0, 1, 3, 2>>))
    IN  IF ~a.ok THEN NoFeature ELSE Feature(<<"softmax">> \o a.term, a.shape)

\* Lines 292-296: x = proj((attn @ v).transpose(1, 2).reshape(B, N, C))
AttentionOut(self, x, attn, kv) ==
    LET v == Index0(kv, 1)
    IN  Linear("proj", self.dim, self.dim,
               reshape(permute(matmul(attn, v), <<0, 2, 1, 3>>), x.shape))

(***************************************************************************)
(* trainer_coca                                                            *)
(***************************************************************************)

\* DataLoader(db, batch_size=batch_size) without drop_last: the sizes of
\* its batches, the last one holding what is left.
Batches(n, batch_size) ==
    [i \in 1..((n + batch_size - 1) \div batch_size) |->
        IF i * batch_size <= n THEN batch_size ELSE n - (i - 1) * batch_size]

\* Line 63: max_iterations
MaxIterations(max_epochs, len_trainloader) == max_epochs * len_trainloader

\* Line 109: images go to the writer every LogInterval iterations.
LogInterval == 50

\* The mutant of Logs: the counter is tested before it is incremented.
Logs_beforeIncrement(iter_num) == (iter_num - 1) % LogInterval = 0

\* Line 109: if iter_num % 50 == 0, on the counter line 101 incremented.
Logs(iter_num) == iter_num % LogInterval = 0

\* Lines 110, 116 and 118: the index in the batch of the sample written,
\* image_batch[1, 0:1, :, :], pred[1, ...] and label_batch[1, ...].
LogSample == 1

\* A loss is a fraction num / den; float('inf') is 1 / 0.
Loss(num, den) == [num |-> num, den |-> den]
Inf == Loss(1, 0)

\* a < b on losses, b possibly float('inf')
LossLess(a, b) == a.num * b.den < b.num * a.den

\* The mutant of Improved: a tie replaces the earlier epoch.
Improved_orEqual(val_loss, best_val_loss) ==
    ~LossLess(best_val_loss, val_loss)

\* Line 161: val_loss < best_val_loss
Improved(val_loss, best_val_loss) == LossLess(val_loss, best_val_loss)

\* The greatest common divisor.
Gcd(a, b) ==
    LET RECURSIVE gcd(_, _)
        gcd(x, y) == IF y = 0 THEN x ELSE gcd(y, x % y)
    IN  gcd(a, b)

\* n is a power of two.
PowerOfTwo(n) ==
    LET RECURSIVE odd(_)
        odd(m) == IF m % 2 = 0 THEN odd(m \div 2) ELSE m
    IN  n > 0 /\ odd(n) = 1

\* The number of binary digits of n.
BitLength(n) ==
    LET RECURSIVE len(_)
        len(m) == IF m = 0 THEN 0 ELSE 1 + len(m \div 2)
    IN  len(n)

\* The float (a double, of 53 significant binary digits) nearest to
\* num / den, a fraction no float holds, is above it: the 54th significant
\* binary digit of num / den is 1.
FloatAbove(num, den) ==
    LET RECURSIVE digit(_, _)
        digit(r, seen) ==
            LET bit == IF 2 * r >= den THEN 1 ELSE 0
                now == IF seen > 0 \/ bit = 1 THEN seen + 1 ELSE 0
            IN  IF now = 54 THEN bit = 1 ELSE digit(2 * r - bit * den, now)
    IN  digit(num % den, BitLength(num \div den))

\* f"{loss:.4f}" of the float num / den: its digits, the loss in units of
\* 1e-4 rounded to the nearest.  The float is rounded exactly: a float half
\* way between two values (num / den with den a power of two) goes to the
\* even one, and a fraction half way that no float holds goes where the
\* float nearest to it lies.
Fmt4(loss) ==
    LET lo == (10000 * loss.num) \div loss.den
        rem == (10000 * loss.num) % loss.den
    IN  IF 2 * rem < loss.den THEN lo
        ELSE IF 2 * rem > loss.den THEN lo + 1
        ELSE IF PowerOfTwo(loss.den \div Gcd(loss.num, loss.den))
        THEN IF lo % 2 = 0 THEN lo ELSE lo + 1
        ELSE IF FloatAbove(loss.num, loss.den) THEN lo + 1 ELSE lo

\* Line 167: f'epoch_{epoch_num}_{best_val_loss:.4f}_best_model.pth'
BestModelPath(epoch_num, best_val_loss) ==
    [epoch |-> epoch_num, loss |-> Fmt4(best_val_loss), suffix |-> "_best_model.pth"]

\* Line 176: f'epoch_{epoch_num}_{val_loss:.4f}.pth'
SaveModelPath(epoch_num, val_loss) ==
    [epoch |-> epoch_num, loss |-> Fmt4(val_loss), suffix |-> ".pth"]

\* best_model_path = None
None == [epoch |-> 0, loss |-> 0, suffix |-> "None"]

\* What the calls of a run have done so far: how often each was made, how
\* many backward passes the gradients hold (zero_grad clears them, backward
\* adds one), how many of them the optimizer stepped on last, the calls of
\* the current iteration in order, and the scheduler's max_steps.
NoSteps ==
    [max_steps |-> 0, forward |-> 0, zero_grad |-> 0, backward |-> 0, scaler_step |-> 0,
     scaler_update |-> 0, scheduler_step |-> 0, grads |-> 0, stepped_on |-> 0,
     calls |-> <<>>]

\* The mutant of Call: optimizer.zero_grad() is not made, the gradients of
\* the earlier batches stay.
Call_zeroGradKeeps(st, op) ==
    LET logged == [st EXCEPT !.calls = IF op = "zero_grad" THEN @ ELSE Append(@, op)]
    IN  CASE op = "forward" -> [logged EXCEPT !.forward = @ + 1]
          [] op = "zero_grad" -> logged
          [] op = "backward" -> [logged EXCEPT !.backward = @ + 1, !.grads = @ + 1]
          [] op = "scaler_step" ->
                [logged EXCEPT !.scaler_step = @ + 1, !.stepped_on = st.grads]
          [] op = "scaler_update" -> [logged EXCEPT !.scaler_update = @ + 1]
          [] op = "scheduler_step" -> [logged EXCEPT !.scheduler_step = @ + 1]

Call(st, op) ==
    LET logged == [st EXCEPT !.calls = Append(st.calls, op)]
    IN  CASE op = "forward" -> [logged EXCEPT !.forward = @ + 1]
          [] op = "zero_grad" -> [logged EXCEPT !.zero_grad = @ + 1, !.grads = 0]
          [] op = "backward" -> [logged EXCEPT !.backward = @ + 1, !.grads = @ + 1]
          [] op = "scaler_step" ->
                [logged EXCEPT !.scaler_step = @ + 1, !.stepped_on = st.grads]
          [] op = "scaler_update" -> [logged EXCEPT !.scaler_update = @ + 1]
          [] op = "scheduler_step" -> [logged EXCEPT !.scheduler_step = @ + 1]

RECURSIVE Calls(_, _)
Calls(st, ops) ==
    IF ops = <<>> THEN st ELSE Calls(Call(st, Head(ops)), Tail(ops))

\* The mutant of TrainCalls: the scheduler is not stepped in the loop over
\* the batches.
TrainCalls_noSchedulerStep ==
    <<"forward", "zero_grad", "backward", "scaler_step", "scaler_update">>

\* Lines 86-98: the calls of one training iteration.
TrainCalls ==
    <<"forward", "zero_grad", "backward", "scaler_step", "scaler_update",
      "scheduler_step">>

\* The mutant of ValCalls: the scheduler is stepped in the validation loop
\* as well.
ValCalls_withSchedulerStep == <<"forward", "scheduler_step">>

\* Lines 141-146: the calls of one validation iteration.
ValCalls == <<"forward">>

(***************************************************************************)
(* Each specification runs one of the machines; the others stay idle.      *)
(***************************************************************************)

WinIdle ==
    /\ win_pc = "idle"
    /\ win_x = Raised
    /\ win_ws = 1
    /\ win_parts = Raised
    /\ win_back = Raised

NLIdle ==
    /\ nl_pc = "idle"
    /\ nl_self = NonLocalBlockInit(2, 0, 1, 2, 1)
    /\ nl_this = Raised
    /\ nl_other = Raised
    /\ nl_this_win = Raised
    /\ nl_other_win = Raised
    /\ nl_query = Raised
    /\ nl_key = Raised
    /\ nl_value = Raised
    /\ nl_weights = Raised
    /\ nl_out = Raised
    /\ nl_x_un = Raised
    /\ nl_z = Raised

FwdIdle ==
    /\ fwd_pc = "idle"
    /\ fwd_self = [depth |-> 5, in_chans |-> 1, embed_dims |-> <<64, 128, 320, 512>>,
                   training |-> TRUE]
    /\ fwd_x = NoFeature
    /\ fwd_prev = NoFeature
    /\ fwd_main = NoFeature
    /\ fwd_next = NoFeature
    /\ fwd_xt = <<>>
    /\ fwd_features = <<>>
    /\ fwd_calls = <<>>
    /\ fwd_result = <<>>

TrIdle ==
    /\ tr_pc = "idle"
    /\ tr_args = [max_epochs |-> 1, batch_size |-> 1, len_train |-> 1, len_val |-> 1]
    /\ tr_epoch_num = 0
    /\ tr_i_train = 0
    /\ tr_i_val = 0
    /\ tr_iter_num = 0
    /\ tr_steps = NoSteps
    /\ tr_mode = "train"
    /\ tr_last = [phase |-> "none", mode |-> "train", calls |-> <<>>]
    /\ tr_val_loss = Loss(0, 1)
    /\ tr_best_val_loss = Inf
    /\ tr_best_model_path = None
    /\ tr_files = {}
    /\ tr_fs = <<>>
    /\ tr_writer = [open |-> TRUE, val_loss |-> <<>>, images |-> <<>>]
    /\ tr_epochs = <<>>
    /\ tr_result = "none"

DprIdle ==
    /\ dpr_pc = "idle"
    /\ dpr_args = [depths |-> <<0, 0, 0, 0>>, drop_path_rate |-> Rate(0, 1)]
    /\ dpr_dpr = <<>>
    /\ dpr_cur = 0
    /\ dpr_blocks = <<>>

AttIdle ==
    /\ att_pc = "idle"
    /\ att_self = [dim |-> 1, num_heads |-> 1, sr_ratio |-> 1]
    /\ att_HW = <<1, 1>>
    /\ att_x = NoFeature
    /\ att_q = NoFeature
    /\ att_x_ = NoFeature
    /\ att_kv = NoFeature
    /\ att_attn = NoFeature
    /\ att_out = NoFeature

(***************************************************************************)
(* SpecNL: NonLocalBlock.forward(x_thisBranch, x_otherBranch) on two       *)
(* feature maps whose elements are named, so that every element of every   *)
(* intermediate tensor tells where it comes from.                          *)
(***************************************************************************)

NlMaxB == 2
NlMaxWin == 2
NlMaxG == 2

\* The constructor's arguments (in_channels, inter_channels, num_heads,
\* window_size); inter_channels = 0 is the default None.
NlBlocks ==
    {<<2, 0, 1, 2>>, <<2, 2, 1, 2>>, <<2, 2, 2, 2>>, <<2, 4, 2, 2>>, <<4, 0, 2, 1>>}

\* A feature map whose element i is the pair (name, i).
Named(name, shape) == Tensor(shape, [i \in 0..(Numel(shape) - 1) |-> <<name, i>>])


NLInit ==
    /\ nl_pc = "start"
    /\ \E a \in NlBlocks, G \in 1..NlMaxG, training \in BOOLEAN :
          /\ NonLocalBlockInitOK(a[1], a[2], a[3])
          /\ nl_self = [NonLocalBlockInit(a[1], a[2], a[3], a[4], G)
                           EXCEPT !.training = training]
    /\ \E B \in 1..NlMaxB,
          H \in 1..(NlMaxWin * nl_self.window_size),
          W \in 1..(NlMaxWin * nl_self.window_size) :
          /\ nl_this = Named("this", <<B, nl_self.in_channels, H, W>>)
          /\ nl_other \in {nl_this, Named("other", <<B, nl_self.in_channels, H, W>>)}
    /\ nl_this_win = Raised
    /\ nl_other_win = Raised
    /\ nl_query = Raised
    /\ nl_key = Raised
    /\ nl_value = Raised
    /\ nl_weights = Raised
    /\ nl_out = Raised
    /\ nl_x_un = Raised
    /\ nl_z = Raised
    /\ WinIdle
    /\ FwdIdle
    /\ TrIdle
    /\ DprIdle
    /\ AttIdle

\* Lines 104-105, window_partition returning.
NLPartition ==
    /\ nl_pc = "start"
    /\ LET w == NLWindows(nl_self, nl_this, nl_other)
       IN  /\ w.this.ok /\ w.other.ok
           /\ nl_this_win' = w.this
           /\ nl_other_win' = w.other
    /\ nl_pc' = "windows"
    /\ UNCHANGED <<nl_self, nl_this, nl_other, nl_query, nl_key, nl_value,
                   nl_weights, nl_out, nl_x_un, nl_z>>
    /\ UNCHANGED nlFrame

\* Lines 104-105, window_partition raising: forward ends there.
NLPartitionRaises ==
    /\ nl_pc = "start"
    /\ LET w == NLWindows(nl_self, nl_this, nl_other)
       IN  ~(w.this.ok /\ w.other.ok)
    /\ nl_pc' = "error"
    /\ UNCHANGED <<nl_self, nl_this, nl_other, nl_this_win, nl_other_win,
                   nl_query, nl_key, nl_value, nl_weights, nl_out, nl_x_un, nl_z>>
    /\ UNCHANGED nlFrame

\* Lines 108-110.
NLProjectStep ==
    /\ nl_pc = "windows"
    /\ LET p == NLProject(nl_self, nl_this_win, nl_other_win)
       IN  /\ nl_query' = p.query
           /\ nl_key' = p.key
           /\ nl_value' = p.value
    /\ nl_pc' = "projected"
    /\ UNCHANGED <<nl_self, nl_this, nl_other, nl_this_win, nl_other_win,
                   nl_weights, nl_out, nl_x_un, nl_z>>
    /\ UNCHANGED nlFrame

\* Lines 112-118.
NLHeadsStep ==
    /\ nl_pc = "projected"
    /\ nl_query' = SplitHeads(nl_self, nl_query)
    /\ nl_key' = SplitHeads(nl_self, nl_key)
    /\ nl_value' = SplitHeads(nl_self, nl_value)
    /\ nl_pc' = "heads"
    /\ UNCHANGED <<nl_self, nl_this, nl_other, nl_this_win, nl_other_win,
                   nl_weights, nl_out, nl_x_un, nl_z>>
    /\ UNCHANGED nlFrame

\* Lines 121-125.
NLTokensStep ==
    /\ nl_pc = "heads"
    /\ nl_query' = NLPrepend(nl_self, nl_query)
    /\ nl_key' = NLPrepend(nl_self, nl_key)
    /\ nl_value' = NLPrepend(nl_self, nl_value)
    /\ nl_pc' = "tokens"
    /\ UNCHANGED <<nl_self, nl_this, nl_other, nl_this_win, nl_other_win,
                   nl_weights, nl_out, nl_x_un, nl_z>>
    /\ UNCHANGED nlFrame

\* Lines 128-130.
NLAttendStep ==
    /\ nl_pc = "tokens"
    /\ nl_weights' = NLWeights(nl_self, nl_query, nl_key)
    /\ nl_out' = MatMul(NLWeights(nl_self, nl_query, nl_key), nl_value)
    /\ nl_pc' = "attended"
    /\ UNCHANGED <<nl_self, nl_this, nl_other, nl_this_win, nl_other_win,
                   nl_query, nl_key, nl_value, nl_x_un, nl_z>>
    /\ UNCHANGED nlFrame

\* Lines 133-134; a view that does not fit raises.
NLStripStep ==
    /\ nl_pc = "attended"
    /\ nl_out' = NLStrip(nl_self, nl_out)
    /\ nl_pc' = IF NLStrip(nl_self, nl_out).ok THEN "stripped" ELSE "error"
    /\ UNCHANGED <<nl_self, nl_this, nl_other, nl_this_win, nl_other_win,
                   nl_query, nl_key, nl_value, nl_weights, nl_x_un, nl_z>>
    /\ UNCHANGED nlFrame

\* Lines 137-140: return z, attention_weights; forward ends at line 138 when
\* the batch normalisation of W_z raises.
NLReturn ==
    /\ nl_pc = "stripped"
    /\ LET x_un == window_unpartition(nl_out, nl_self.window_size,
                                      nl_this.shape[3], nl_this.shape[4], nl_this.shape[1])
       IN  /\ nl_x_un' = x_un
           /\ nl_z' = W_z(nl_self, x_un)
           /\ nl_pc' = IF W_z(nl_self, x_un).ok THEN "done" ELSE "error"
    /\ UNCHANGED <<nl_self, nl_this, nl_other, nl_this_win, nl_other_win,
                   nl_query, nl_key, nl_value, nl_weights, nl_out>>
    /\ UNCHANGED nlFrame

NLNext ==
    \/ NLPartition
    \/ NLPartitionRaises
    \/ NLProjectStep
    \/ NLHeadsStep
    \/ NLTokensStep
    \/ NLAttendStep
    \/ NLStripStep
    \/ NLReturn

SpecNL == NLInit /\ [][NLNext]_vars

(***************************************************************************)
(* SpecWin: a feature map whose elements are all different (element i is   *)
(* the number i) is cut into windows and put together again.               *)
(***************************************************************************)

WinMaxB == 2
WinMaxC == 2
WinMaxSide == 4
WinMaxWs == 2

\* torch.arange(B*C*H*W).view(B, C, H, W)
Arange(shape) == Tensor(shape, [i \in 0..(Numel(shape) - 1) |-> i])


WinInit ==
    /\ win_pc = "start"
    /\ \E B \in 1..WinMaxB, C \in 1..WinMaxC,
          H \in 1..WinMaxSide, W \in 1..WinMaxSide :
          win_x = Arange(<<B, C, H, W>>)
    /\ win_ws \in 1..WinMaxWs
    /\ win_parts = Raised
    /\ win_back = Raised
    /\ NLIdle
    /\ FwdIdle
    /\ TrIdle
    /\ DprIdle
    /\ AttIdle

\* x_win = window_partition(x, ws), which returns
WinPartition ==
    /\ win_pc = "start"
    /\ window_partition(win_x, win_ws).ok
    /\ win_parts' = window_partition(win_x, win_ws)
    /\ win_pc' = "partitioned"
    /\ UNCHANGED <<win_x, win_ws, win_back>>
    /\ UNCHANGED winFrame

\* x_win = window_partition(x, ws), whose first view raises
WinPartitionRaises ==
    /\ win_pc = "start"
    /\ ~window_partition(win_x, win_ws).ok
    /\ win_pc' = "error"
    /\ UNCHANGED <<win_x, win_ws, win_parts, win_back>>
    /\ UNCHANGED winFrame

\* window_unpartition(x_win, ws, H, W, B)
WinUnpartition ==
    /\ win_pc = "partitioned"
    /\ win_back' = window_unpartition(win_parts, win_ws,
                                      win_x.shape[3], win_x.shape[4], win_x.shape[1])
    /\ win_pc' = "restored"
    /\ UNCHANGED <<win_x, win_ws, win_parts>>
    /\ UNCHANGED winFrame

WinNext == WinPartition \/ WinPartitionRaises \/ WinUnpartition

SpecWin == WinInit /\ [][WinNext]_vars

(***************************************************************************)
(* SpecFwd: MixVisionTransformerSAEncoder.forward(x)                       *)
(***************************************************************************)

FwdMaxB == 2
FwdMaxSide128 == 4

\* Heights and widths of the input.
FwdSides == {128 * k : k \in 1..FwdMaxSide128} \cup {16, 28, 29, 224, 496, 497, 500}

\* The constructor's arguments: depth, in_chans and embed_dims, and the mode
\* the encoder is in: training after construction and model.train(), not
\* after model.eval().
FwdEncoders ==
    [depth : {3, 5},
     in_chans : {1, 3},
     embed_dims : {<<64, 128, 320, 512>>, <<64, 128, 256, 512>>},
     training : BOOLEAN]

FwdInit ==
    /\ fwd_pc = "start"
    /\ fwd_self \in FwdEncoders
    /\ \E B \in 1..FwdMaxB, H \in FwdSides, W \in FwdSides :
          fwd_x = Feature(<<"x">>, <<B, 3, H, W>>)
    /\ fwd_prev = NoFeature
    /\ fwd_main = NoFeature
    /\ fwd_next = NoFeature
    /\ fwd_xt = <<>>
    /\ fwd_features = <<>>
    /\ fwd_calls = <<>>
    /\ fwd_result = <<>>
    /\ WinIdle
    /\ NLIdle
    /\ TrIdle
    /\ DprIdle
    /\ AttIdle

\* Lines 707-719: the dummy, features[0], features[1] and the three slices.
FwdSlices ==
    /\ fwd_pc = "start"
    /\ fwd_features' = <<fwd_x, Dummy(fwd_x)>>
    /\ fwd_prev' = Slice(fwd_x, 0)
    /\ fwd_main' = Slice(fwd_x, 1)
    /\ fwd_next' = Slice(fwd_x, 2)
    /\ fwd_pc' = "sliced"
    /\ UNCHANGED <<fwd_self, fwd_x, fwd_xt, fwd_calls, fwd_result>>
    /\ UNCHANGED fwdFrame

\* The three branches through stage k; features gets x_main when `keep`.
\* A layer that raises ends forward.
FwdStage(k, from, to, keep) ==
    /\ fwd_pc = from
    /\ LET prev == Stage(fwd_self, k, fwd_prev)
           main == Stage(fwd_self, k, fwd_main)
           next == Stage(fwd_self, k, fwd_next)
       IN  IF prev.ok /\ main.ok /\ next.ok
           THEN /\ fwd_prev' = prev
                /\ fwd_main' = main
                /\ fwd_next' = next
                /\ fwd_features' = IF keep THEN Append(fwd_features, main)
                                   ELSE fwd_features
                /\ fwd_pc' = to
           ELSE /\ fwd_pc' = "error"
                /\ UNCHANGED <<fwd_prev, fwd_main, fwd_next, fwd_features>>
    /\ UNCHANGED <<fwd_self, fwd_x, fwd_xt, fwd_calls, fwd_result>>
    /\ UNCHANGED fwdFrame

\* Lines 724-736.
FwdStage1 == FwdStage(1, "sliced", "stage1", TRUE)

\* Lines 741-753.
FwdStage2 == FwdStage(2, "stage1", "stage2", TRUE)

\* Lines 758-768.
FwdStage3 == FwdStage(3, "stage2", "stage3", FALSE)

\* Lines 785-795.
FwdStage4 == FwdStage(4, "fused3", "stage4", FALSE)

\* The three non-local blocks of a stage, called in order; the first that
\* raises ends forward, the calls up to it made.
FwdCross(stage, from, to) ==
    /\ fwd_pc = from
    /\ LET calls == CrossCalls(stage, fwd_prev, fwd_main, fwd_next)
           xt == [i \in 1..3 |->
                    NonLocal(calls[i].block, FusionArgs(stage).in_channels,
                             EncWindowSize, fwd_self.training,
                             calls[i].this, calls[i].other)]
           made == IF ~xt[1].ok THEN 1 ELSE IF ~xt[2].ok THEN 2 ELSE 3
           log == [i \in 1..made |->
                     [block |-> calls[i].block, stage |-> stage,
                      this |-> calls[i].this.term, other |-> calls[i].other.term]]
       IN  /\ fwd_calls' = fwd_calls \o log
           /\ IF xt[1].ok /\ xt[2].ok /\ xt[3].ok
              THEN fwd_xt' = xt /\ fwd_pc' = to
              ELSE fwd_xt' = fwd_xt /\ fwd_pc' = "error"
    /\ UNCHANGED <<fwd_self, fwd_x, fwd_prev, fwd_main, fwd_next, fwd_features,
                   fwd_result>>
    /\ UNCHANGED fwdFrame

\* Lines 770-772.
FwdCross3 == FwdCross(3, "stage3", "cross3")

\* Lines 797-799.
FwdCross4 == FwdCross(4, "stage4", "cross4")

\* The fusion of a stage: x_main is replaced and appended to features.
FwdFuse(stage, from, to) ==
    /\ fwd_pc = from
    /\ LET fused == Fuse(stage, fwd_self.training, fwd_xt, fwd_main)
       IN  IF fused.ok
           THEN /\ fwd_main' = fused
                /\ fwd_features' = Append(fwd_features, fused)
                /\ fwd_pc' = to
           ELSE /\ fwd_pc' = "error"
                /\ UNCHANGED <<fwd_main, fwd_features>>
    /\ UNCHANGED <<fwd_self, fwd_x, fwd_prev, fwd_next, fwd_xt, fwd_calls, fwd_result>>
    /\ UNCHANGED fwdFrame

\* Lines 774-780.
FwdFuse3 == FwdFuse(3, "cross3", "fused3")

\* Lines 801-807.
FwdFuse4 == FwdFuse(4, "cross4", "fused4")

\* Line 809.
FwdReturn ==
    /\ fwd_pc = "fused4"
    /\ fwd_result' = Returned(fwd_self, fwd_features)
    /\ fwd_pc' = "done"
    /\ UNCHANGED <<fwd_self, fwd_x, fwd_prev, fwd_main, fwd_next, fwd_xt,
                   fwd_features, fwd_calls>>
    /\ UNCHANGED fwdFrame

FwdNext ==
    \/ FwdSlices
    \/ FwdStage1
    \/ FwdStage2
    \/ FwdStage3
    \/ FwdCross3
    \/ FwdFuse3
    \/ FwdStage4
    \/ FwdCross4
    \/ FwdFuse4
    \/ FwdReturn

SpecFwd == FwdInit /\ [][FwdNext]_vars

(***************************************************************************)
(* SpecTrain: trainer_coca(args, model, snapshot_path), a step for every   *)
(* batch and one for what lies between two loops.                          *)
(***************************************************************************)

TrMaxEpochs == 3
TrMaxBatchSize == 2
TrMaxTrainSet == 3
TrMaxValSet == 2
TrMaxLoss == 2

\* len(db_train): small sets, and those that reach iteration LogInterval
\* with a full and with a short batch.
TrainSets == (1..TrMaxTrainSet) \cup {LogInterval \div 2, LogInterval - 1, LogInterval}

trainloader == Batches(tr_args.len_train, tr_args.batch_size)
valloader == Batches(tr_args.len_val, tr_args.batch_size)

\* Lines 63-74: the state before the first epoch.
TrInit ==
    /\ tr_pc = "epoch"
    /\ tr_args \in [max_epochs : 1..TrMaxEpochs, batch_size : 1..TrMaxBatchSize,
                    len_train : TrainSets, len_val : 1..TrMaxValSet]
    /\ tr_epoch_num = 0
    /\ tr_i_train = 0
    /\ tr_i_val = 0
    /\ tr_iter_num = 0
    /\ tr_steps = [NoSteps EXCEPT
                       !.max_steps = MaxIterations(tr_args.max_epochs, Len(trainloader))]
    /\ tr_mode = "train"
    /\ tr_last = [phase |-> "none", mode |-> "train", calls |-> <<>>]
    /\ tr_val_loss = Loss(0, 1)
    /\ tr_best_val_loss = Inf
    /\ tr_best_model_path = None
    /\ tr_files = {}
    /\ tr_fs = <<>>
    /\ tr_writer = [open |-> TRUE, val_loss |-> <<>>, images |-> <<>>]
    /\ tr_epochs = <<>>
    /\ tr_result = "none"
    /\ WinIdle
    /\ NLIdle
    /\ FwdIdle
    /\ DprIdle
    /\ AttIdle

\* Lines 76-81: the next epoch begins; model.train().
TrEpochBegin ==
    /\ tr_pc = "epoch"
    /\ tr_epoch_num < tr_args.max_epochs
    /\ tr_epoch_num' = tr_epoch_num + 1
    /\ tr_mode' = "train"
    /\ tr_i_train' = 0
    /\ tr_pc' = "train"
    /\ UNCHANGED <<tr_args, tr_i_val, tr_iter_num, tr_steps, tr_last, tr_val_loss,
                   tr_best_val_loss, tr_best_model_path, tr_files, tr_fs, tr_writer,
                   tr_epochs, tr_result>>
    /\ UNCHANGED trFrame

\* Lines 82-119: one training batch.  At every LogInterval-th iteration the
\* sample at index LogSample of the batch is written as an image, which
\* raises IndexError on a batch that has no such sample.
TrTrainBatch ==
    /\ tr_pc = "train"
    /\ tr_i_train < Len(trainloader)
    /\ tr_i_train' = tr_i_train + 1
    /\ LET before == [tr_steps EXCEPT !.calls = <<>>]
           after == Calls(before, TrainCalls)
       IN  /\ tr_steps' = after
           /\ tr_last' = [phase |-> "train", mode |-> tr_mode, calls |-> after.calls]
    /\ tr_iter_num' = tr_iter_num + 1
    /\ IF Logs(tr_iter_num + 1)
       THEN IF trainloader[tr_i_train + 1] <= LogSample
            THEN /\ tr_pc' = "raised"
                 /\ tr_writer' = tr_writer
            ELSE /\ tr_pc' = "train"
                 /\ tr_writer' = [tr_writer EXCEPT
                                     !.images = Append(@, [step |-> tr_iter_num + 1,
                                                           sample |-> LogSample])]
       ELSE /\ tr_pc' = "train"
            /\ tr_writer' = tr_writer
    /\ UNCHANGED <<tr_args, tr_epoch_num, tr_i_val, tr_mode, tr_val_loss,
                   tr_best_val_loss, tr_best_model_path, tr_files, tr_fs,
                   tr_epochs, tr_result>>
    /\ UNCHANGED trFrame

\* Lines 121-136: the training loop is over; model.eval().
TrTrainEnd ==
    /\ tr_pc = "train"
    /\ tr_i_train = Len(trainloader)
    /\ tr_mode' = "eval"
    /\ tr_val_loss' = Loss(0, 1)
    /\ tr_i_val' = 0
    /\ tr_pc' = "val"
    /\ UNCHANGED <<tr_args, tr_epoch_num, tr_i_train, tr_iter_num, tr_steps, tr_last,
                   tr_best_val_loss, tr_best_model_path, tr_files, tr_fs, tr_writer,
                   tr_epochs, tr_result>>
    /\ UNCHANGED trFrame

\* Lines 137-150: one validation batch, of some loss.
TrValBatch ==
    /\ tr_pc = "val"
    /\ tr_i_val < Len(valloader)
    /\ tr_i_val' = tr_i_val + 1
    /\ LET before == [tr_steps EXCEPT !.calls = <<>>]
           after == Calls(before, ValCalls)
       IN  /\ tr_steps' = after
           /\ tr_last' = [phase |-> "val", mode |-> tr_mode, calls |-> after.calls]
    /\ \E loss \in 1..TrMaxLoss :
          tr_val_loss' = Loss(tr_val_loss.num + loss, 1)
    /\ UNCHANGED <<tr_pc, tr_args, tr_epoch_num, tr_i_train, tr_iter_num, tr_mode,
                   tr_best_val_loss, tr_best_model_path, tr_files, tr_fs, tr_writer,
                   tr_epochs, tr_result>>
    /\ UNCHANGED trFrame

\* Lines 152-182: the validation loop is over; the mean loss, the best
\* model and, in the last epoch, the final model.
TrEpochEnd ==
    /\ tr_pc = "val"
    /\ tr_i_val = Len(valloader)
    /\ LET val_loss == Loss(tr_val_loss.num, tr_val_loss.den * Len(valloader))
           better == Improved(val_loss, tr_best_val_loss)
           best_model_path == BestModelPath(tr_epoch_num, val_loss)
           removes == better /\ tr_best_model_path # None
                             /\ tr_best_model_path \in tr_files
           files1 == IF removes THEN tr_files \ {tr_best_model_path} ELSE tr_files
           fs1 == IF removes THEN Append(tr_fs, <<"remove", tr_best_model_path>>)
                  ELSE tr_fs
           files2 == IF better THEN files1 \cup {best_model_path} ELSE files1
           fs2 == IF better THEN Append(fs1, <<"save", best_model_path>>) ELSE fs1
           last == tr_epoch_num = tr_args.max_epochs
           save_model_path == SaveModelPath(tr_epoch_num, val_loss)
       IN  /\ tr_val_loss' = val_loss
           /\ tr_writer' = [tr_writer EXCEPT !.val_loss = Append(@, val_loss)]
           /\ tr_best_val_loss' = IF better THEN val_loss ELSE tr_best_val_loss
           /\ tr_best_model_path' = IF better THEN best_model_path
                                    ELSE tr_best_model_path
           /\ tr_files' = IF last THEN files2 \cup {save_model_path} ELSE files2
           /\ tr_fs' = IF last THEN Append(fs2, <<"save", save_model_path>>) ELSE fs2
    /\ tr_epochs' = Append(tr_epochs, [train |-> tr_i_train, val |-> tr_i_val])
    /\ tr_pc' = "epoch"
    /\ UNCHANGED <<tr_args, tr_epoch_num, tr_i_train, tr_i_val, tr_iter_num, tr_steps,
                   tr_mode, tr_last, tr_result>>
    /\ UNCHANGED trFrame

\* Lines 184-185: writer.close(); return "Training Finished!"
TrReturn ==
    /\ tr_pc = "epoch"
    /\ tr_epoch_num = tr_args.max_epochs
    /\ tr_writer' = [tr_writer EXCEPT !.open = FALSE]
    /\ tr_result' = "Training Finished!"
    /\ tr_pc' = "returned"
    /\ UNCHANGED <<tr_args, tr_epoch_num, tr_i_train, tr_i_val, tr_iter_num, tr_steps,
                   tr_mode, tr_last, tr_val_loss, tr_best_val_loss,
                   tr_best_model_path, tr_files, tr_fs, tr_epochs>>
    /\ UNCHANGED trFrame

TrNext ==
    \/ TrEpochBegin
    \/ TrTrainBatch
    \/ TrTrainEnd
    \/ TrValBatch
    \/ TrEpochEnd
    \/ TrReturn

SpecTrain == TrInit /\ [][TrNext]_vars

(***************************************************************************)
(* SpecDpr: MixVisionTransformer.__init__ from the stochastic depth decay  *)
(* rule on, a step for dpr and one for the blocks of every stage, and then *)
(* the calls of reset_drop_path.                                           *)
(***************************************************************************)

DprMaxDepth == 2
DprMaxRate == 2

\* drop_path_rate in tenths, 0.0 (the default) included.
DprRates == {Rate(n, 10) : n \in 0..DprMaxRate}

DprInit ==
    /\ dpr_pc = "start"
    /\ dpr_args \in [depths : [1..4 -> 0..DprMaxDepth], drop_path_rate : DprRates]
    /\ dpr_dpr = <<>>
    /\ dpr_cur = 0
    /\ dpr_blocks = <<>>
    /\ WinIdle
    /\ NLIdle
    /\ FwdIdle
    /\ TrIdle
    /\ AttIdle

\* Lines 460-463: dpr = [...]; cur = 0
DprLinspace ==
    /\ dpr_pc = "start"
    /\ dpr_dpr' = linspace(dpr_args.drop_path_rate, Sum(dpr_args.depths))
    /\ dpr_cur' = 0
    /\ dpr_pc' = "dpr"
    /\ UNCHANGED <<dpr_args, dpr_blocks>>
    /\ UNCHANGED dprFrame

\* Lines 464-481, 483-501, 503-521 and 523-541: cur += depths[k - 2] for the
\* stages after the first, then self.block_k = nn.Sequential(...)
DprBlock(k, from, to) ==
    /\ dpr_pc = from
    /\ LET cur == IF k = 1 THEN dpr_cur ELSE dpr_cur + dpr_args.depths[k - 1]
       IN  /\ dpr_cur' = cur
           /\ dpr_blocks' = Append(dpr_blocks,
                                   BlocksOfStage(dpr_args.depths, dpr_dpr, cur, k))
    /\ dpr_pc' = to
    /\ UNCHANGED <<dpr_args, dpr_dpr>>
    /\ UNCHANGED dprFrame

DprBlock1 == DprBlock(1, "dpr", "block1")

DprBlock2 == DprBlock(2, "block1", "block2")

DprBlock3 == DprBlock(3, "block2", "block3")

DprBlock4 == DprBlock(4, "block3", "block4")

\* Lines 566-582: reset_drop_path(drop_path_rate) on the constructed model,
\* any number of times.  dpr and cur are the method's own.
DprReset ==
    /\ dpr_pc \in {"block4", "reset"}
    /\ \E drop_path_rate \in DprRates :
          /\ dpr_dpr' = linspace(drop_path_rate, Sum(dpr_args.depths))
          /\ dpr_blocks' = reset_drop_path(dpr_blocks, dpr_args.depths, drop_path_rate)
    /\ dpr_cur' = CurOfStage(dpr_args.depths, 4)
    /\ dpr_pc' = "reset"
    /\ UNCHANGED dpr_args
    /\ UNCHANGED dprFrame

DprNext ==
    \/ DprLinspace
    \/ DprBlock1
    \/ DprBlock2
    \/ DprBlock3
    \/ DprBlock4
    \/ DprReset

SpecDpr == DprInit /\ [][DprNext]_vars

(***************************************************************************)
(* SpecAttn: Attention.forward(x, H, W) as Block.forward calls it, on the  *)
(* H * W tokens of a feature map, in the attention of each of the four     *)
(* stages.                                                                 *)
(***************************************************************************)

AttMaxB == 2
AttMaxSide == 9

\* Attention(dim, num_heads, sr_ratio) of the blocks of stage k.
AttentionInit(k) == [dim |-> EmbedDims[k], num_heads |-> NumHeads[k], sr_ratio |-> SrRatios[k]]

AttInit ==
    /\ att_pc = "start"
    /\ att_self \in {AttentionInit(k) : k \in 1..4}
    /\ att_HW \in (1..AttMaxSide) \X (1..AttMaxSide)
    /\ \E B \in 1..AttMaxB :
          att_x = Feature(<<"x">>, <<B, att_HW[1] * att_HW[2], att_self.dim>>)
    /\ att_q = NoFeature
    /\ att_x_ = NoFeature
    /\ att_kv = NoFeature
    /\ att_attn = NoFeature
    /\ att_out = NoFeature
    /\ WinIdle
    /\ NLIdle
    /\ FwdIdle
    /\ TrIdle
    /\ DprIdle

\* Lines 264-269
AttQuery ==
    /\ att_pc = "start"
    /\ att_q' = AttentionQ(att_self, att_x)
    /\ att_pc' = "q"
    /\ UNCHANGED <<att_self, att_HW, att_x, att_x_, att_kv, att_attn, att_out>>
    /\ UNCHANGED attFrame

\* Lines 271-274: the spatial reduction, sr_ratio > 1
AttReduce ==
    /\ att_pc = "q"
    /\ att_self.sr_ratio > 1
    /\ AttentionKVInput(att_self, att_x, att_HW[1], att_HW[2]).ok
    /\ att_x_' = AttentionKVInput(att_self, att_x, att_HW[1], att_HW[2])
    /\ att_pc' = "x_"
    /\ UNCHANGED <<att_self, att_HW, att_x, att_q, att_kv, att_attn, att_out>>
    /\ UNCHANGED attFrame

\* Line 273: self.sr raises
AttReduceRaises ==
    /\ att_pc = "q"
    /\ att_self.sr_ratio > 1
    /\ ~AttentionKVInput(att_self, att_x, att_HW[1], att_HW[2]).ok
    /\ att_pc' = "error"
    /\ UNCHANGED <<att_self, att_HW, att_x, att_q, att_x_, att_kv, att_attn, att_out>>
    /\ UNCHANGED attFrame

\* Lines 280-281: no reduction, self.kv takes x
AttKeep ==
    /\ att_pc = "q"
    /\ att_self.sr_ratio <= 1
    /\ att_x_' = AttentionKVInput(att_self, att_x, att_HW[1], att_HW[2])
    /\ att_pc' = "x_"
    /\ UNCHANGED <<att_self, att_HW, att_x, att_q, att_kv, att_attn, att_out>>
    /\ UNCHANGED attFrame

\* Lines 275-279 and 281-285
AttKeyValue ==
    /\ att_pc = "x_"
    /\ att_kv' = AttentionKV(att_self, att_x, att_x_)
    /\ att_pc' = "kv"
    /\ UNCHANGED <<att_self, att_HW, att_x, att_q, att_x_, att_attn, att_out>>
    /\ UNCHANGED attFrame

\* Lines 286-290
AttAttend ==
    /\ att_pc = "kv"
    /\ att_attn' = AttentionWeights(att_q, att_kv)
    /\ att_pc' = "attn"
    /\ UNCHANGED <<att_self, att_HW, att_x, att_q, att_x_, att_kv, att_out>>
    /\ UNCHANGED attFrame

\* Lines 292-296
AttReturn ==
    /\ att_pc = "attn"
    /\ att_out' = AttentionOut(att_self, att_x, att_attn, att_kv)
    /\ att_pc' = "done"
    /\ UNCHANGED <<att_self, att_HW, att_x, att_q, att_x_, att_kv, att_attn>>
    /\ UNCHANGED attFrame

AttNext ==
    \/ AttQuery
    \/ AttReduce
    \/ AttReduceRaises
    \/ AttKeep
    \/ AttKeyValue
    \/ AttAttend
    \/ AttReturn

SpecAttn == AttInit /\ [][AttNext]_vars

(***************************************************************************)
(* Claims about window_partition and NonLocalBlock.forward                 *)
(***************************************************************************)

\* C5: windowing and unwindowing are inverse.  For a feature map of shape
\* (B, C, H, W) with H and W positive multiples of window_size,
\* window_partition does not raise and yields B*(H/ws)*(W/ws) windows of
\* shape (C, ws, ws), the element at (b, c, h, w) lies in window
\* b*(H/ws)*(W/ws) + (h div ws)*(W/ws) + (w div ws) at (c, h mod ws, w mod ws),
\* and window_unpartition gives back the feature map, element for element.
C5_WindowsInverse ==
    LET B == win_x.shape[1]
        C == win_x.shape[2]
        H == win_x.shape[3]
        W == win_x.shape[4]
        nh == H \div win_ws
        nw == W \div win_ws
    IN  (H % win_ws = 0 /\ W % win_ws = 0) =>
            /\ win_pc # "error"
            /\ win_pc \in {"partitioned", "restored"} =>
                  /\ win_parts.shape = <<B * nh * nw, C, win_ws, win_ws>>
                  /\ \A b \in 0..(B - 1), c \in 0..(C - 1),
                        h \in 0..(H - 1), w \in 0..(W - 1) :
                        At(win_parts, <<b * nh * nw + (h \div win_ws) * nw + (w \div win_ws),
                                        c, h % win_ws, w % win_ws>>)
                            = At(win_x, <<b, c, h, w>>)
            /\ win_pc = "restored" => win_back = win_x

\* A 2 x 2 x 4 x 4 feature map cut into eight 2 x 2 windows and restored.
C5_Witness ==
    /\ win_pc = "restored"
    /\ win_x.shape = <<2, 2, 4, 4>>
    /\ win_ws = 2
    /\ win_parts.shape = <<8, 2, 2, 2>>
    /\ win_back = win_x

\* The pixel of window bw at position pos of the window, in a feature map
\* of nwh x nww windows: <<b, y, x>>.
PixelOf(bw, pos, ws, nwh, nww) ==
    <<bw \div (nwh * nww),
      ((bw \div nww) % nwh) * ws + (pos \div ws),
      (bw % nww) * ws + (pos % ws)>>

\* The channels of feature map x at pixel p = <<b, y, x>>.
ChannelsAt(x, p) == [c \in 1..x.shape[2] |-> At(x, <<p[1], c - 1, p[2], p[3]>>)]

\* C2: in NonLocalBlock.forward the similarity is computed window by window
\* between the two branches: row G + pos of the query of window bw and head
\* hd is query_conv of x_otherBranch at the pixel at position pos of that
\* window (channels hd*head_dim ..), the same rows of key and value are
\* key_conv and value_conv of x_thisBranch at that pixel, rows 0 .. G-1 of
\* query, key and value are the same global tokens in every window, and
\* attention_weights[bw, hd, i, j] scores row i of that query against row j
\* of that key.
C2_QueryOtherKeyValueThis ==
    nl_pc \in {"tokens", "attended", "stripped", "done"} =>
        LET ws == nl_self.window_size
            G == nl_self.num_global_tokens
            nwh == nl_this.shape[3] \div ws
            nww == nl_this.shape[4] \div ws
            B_win == nl_this.shape[1] * nwh * nww
            rows == G + ws * ws
        IN  /\ nl_query.shape = <<B_win, nl_self.num_heads, rows, nl_self.head_dim>>
            /\ nl_key.shape = nl_query.shape
            /\ nl_value.shape = nl_query.shape
            /\ \A bw \in 0..(B_win - 1), hd \in 0..(nl_self.num_heads - 1),
                  r \in 0..(rows - 1), d \in 0..(nl_self.head_dim - 1) :
                  LET q == At(nl_query, <<bw, hd, r, d>>)
                      k == At(nl_key, <<bw, hd, r, d>>)
                      v == At(nl_value, <<bw, hd, r, d>>)
                      p == PixelOf(bw, r - G, ws, nwh, nww)
                  IN  IF r < G
                      THEN /\ q.conv = "global_tokens"
                           /\ k = q
                           /\ v = q
                           /\ q = At(nl_query, <<0, hd, r, d>>)
                      ELSE /\ q = [conv |-> "query_conv", oc |-> hd * nl_self.head_dim + d,
                                   tok |-> -1, inp |-> ChannelsAt(nl_other, p)]
                           /\ k = [conv |-> "key_conv", oc |-> hd * nl_self.head_dim + d,
                                   tok |-> -1, inp |-> ChannelsAt(nl_this, p)]
                           /\ v = [conv |-> "value_conv", oc |-> hd * nl_self.head_dim + d,
                                   tok |-> -1, inp |-> ChannelsAt(nl_this, p)]
            /\ nl_pc \in {"attended", "stripped", "done"} =>
                  \A bw \in 0..(B_win - 1), hd \in 0..(nl_self.num_heads - 1),
                     i \in 0..(rows - 1), j \in 0..(rows - 1) :
                     At(nl_weights, <<bw, hd, i, j>>).score
                         = [d \in 1..nl_self.head_dim |->
                               <<At(nl_query, <<bw, hd, i, d - 1>>),
                                 At(nl_key, <<bw, hd, j, d - 1>>)>>]

\* forward has returned for two different branches of eight windows, two
\* heads and two global tokens.
C2_Witness ==
    /\ nl_pc = "done"
    /\ nl_other # nl_this
    /\ nl_this.shape = <<2, 2, 4, 4>>
    /\ nl_self.num_heads = 2
    /\ nl_self.num_global_tokens = 2
    /\ nl_query.shape = <<8, 2, 6, 1>>

\* The batch normalisation of W_z gets one value a channel in training mode.
OneValueInTraining ==
    nl_self.training /\ nl_this.shape[1] * nl_this.shape[3] * nl_this.shape[4] = 1

\* The shapes of attention_weights, out, x_un and z at the steps of forward
\* that have been taken, and the rows of out that are kept: rows
\* G .. G + ws^2 - 1 of every window and head.
ShapesAsClaimed ==
    LET ws == nl_self.window_size
        G == nl_self.num_global_tokens
        B == nl_this.shape[1]
        H == nl_this.shape[3]
        W == nl_this.shape[4]
        B_win == B * (H \div ws) * (W \div ws)
        rows == G + ws * ws
    IN  /\ nl_pc \in {"attended", "stripped", "done"} =>
              nl_weights.shape = <<B_win, nl_self.num_heads, rows, rows>>
        /\ nl_pc = "attended" =>
              nl_out.shape = <<B_win, nl_self.num_heads, rows, nl_self.head_dim>>
        /\ nl_pc \in {"stripped", "done"} =>
              /\ nl_out.shape = <<B_win, nl_self.inter_channels, ws, ws>>
              /\ \A bw \in 0..(B_win - 1), hd \in 0..(nl_self.num_heads - 1),
                    d \in 0..(nl_self.head_dim - 1), pos \in 0..(ws * ws - 1) :
                    At(nl_out, <<bw, hd * nl_self.head_dim + d, pos \div ws, pos % ws>>)
                        = [j \in 1..rows |->
                              <<At(nl_weights, <<bw, hd, G + pos, j - 1>>),
                                At(nl_value, <<bw, hd, j - 1, d>>)>>]
        /\ nl_pc = "done" =>
              /\ nl_x_un.shape = <<B, nl_self.inter_channels, H, W>>
              /\ nl_z.ok
              /\ nl_z.shape = <<B, nl_self.in_channels, H, W>>
              /\ nl_z.shape = nl_this.shape

\* C6 as stated: NonLocalBlock.forward preserves the shape of the feature
\* map and drops the global tokens from its output.  For inputs of shape
\* (B, in_channels, H, W) with H and W multiples of window_size it does not
\* raise, attention_weights has shape (B*(H/ws)*(W/ws), num_heads, G + ws^2,
\* G + ws^2), the rows of out that are kept are rows G .. G + ws^2 - 1 of
\* every window and head (ws^2 rows a window), and z has shape
\* (B, in_channels, H, W).
C6_ShapePreservedTokensDropped ==
    (/\ nl_pc # "idle"
     /\ nl_this.shape[3] % nl_self.window_size = 0
     /\ nl_this.shape[4] % nl_self.window_size = 0) =>
        /\ nl_pc # "error"
        /\ ShapesAsClaimed

\* C6, amended: for inputs of shape (B, in_channels, H, W) with H and W
\* multiples of window_size, the shapes of attention_weights and out and the
\* rows kept are as stated; forward returns z of shape (B, in_channels, H, W)
\* unless the block is in training mode and B*H*W = 1, and then it raises
\* in W_z, after x_un of shape (B, inter_channels, H, W) has been computed.
C6_ShapePreservedOverOneValue ==
    (/\ nl_pc # "idle"
     /\ nl_this.shape[3] % nl_self.window_size = 0
     /\ nl_this.shape[4] % nl_self.window_size = 0) =>
        /\ ShapesAsClaimed
        /\ nl_pc = "done" => ~OneValueInTraining
        /\ nl_pc = "error" =>
              /\ OneValueInTraining
              /\ nl_x_un.ok
              /\ nl_x_un.shape = <<nl_this.shape[1], nl_self.inter_channels,
                                   nl_this.shape[3], nl_this.shape[4]>>
              /\ ~nl_z.ok

\* forward has returned, in training mode, z of the input's shape over eight
\* windows of six rows, of which four are kept.
C6_Witness ==
    /\ nl_pc = "done"
    /\ nl_self.training
    /\ nl_self.num_global_tokens = 2
    /\ nl_self.inter_channels = 4
    /\ nl_weights.shape = <<8, 2, 6, 6>>
    /\ nl_out.shape = <<8, 4, 2, 2>>
    /\ nl_z.shape = <<2, 2, 4, 4>>

(***************************************************************************)
(* Claims about MixVisionTransformerSAEncoder.forward                      *)
(***************************************************************************)

\* The feature of slice c (0 previous, 1 main, 2 next) after its first k
\* stages, none of them fused.
RECURSIVE Unfused(_, _)
Unfused(c, k) ==
    IF k = 0 THEN <<<<"x[:,0:1]">>, <<"x[:,1:2]">>, <<"x[:,2:3]">>>>[c + 1] \o <<"x">>
    ELSE <<<<"norm1", "block1", "patch_embed1">>, <<"norm2", "block2", "patch_embed2">>,
           <<"norm3", "block3", "patch_embed3">>, <<"norm4", "block4", "patch_embed4">>>>[k]
         \o Unfused(c, k - 1)

\* double_conv(compress(cat(xt_prev, xt_self, xt_next))) + main, with xt_*
\* the non-local blocks of the stage on (main, prev), (main, main), (main, next).
FusedOf(n, main, prev, next) ==
    LET names == IF n = 3
                 THEN <<"double_conv_3", "compress_3", "cross_attention_prev_3",
                        "cross_attention_self_3", "cross_attention_next_3">>
                 ELSE <<"double_conv_4", "compress_4", "cross_attention_prev_4",
                        "cross_attention_self_4", "cross_attention_next_4">>
    IN  <<"add", names[1], names[2], "cat">>
            \o (<<names[3]>> \o main \o prev)
            \o (<<names[4]>> \o main \o main)
            \o (<<names[5]>> \o main \o next)
            \o main

Fused3 == FusedOf(3, Unfused(1, 3), Unfused(0, 3), Unfused(2, 3))

\* The main branch of stage 4, before its fusion.
Main4 == <<"norm4", "block4", "patch_embed4">> \o Fused3

Fused4 == FusedOf(4, Main4, Unfused(0, 4), Unfused(2, 4))

\* The six calls of a forward that returns.
SixCalls ==
    <<[block |-> "cross_attention_prev_3", stage |-> 3,
       this |-> Unfused(1, 3), other |-> Unfused(0, 3)],
      [block |-> "cross_attention_self_3", stage |-> 3,
       this |-> Unfused(1, 3), other |-> Unfused(1, 3)],
      [block |-> "cross_attention_next_3", stage |-> 3,
       this |-> Unfused(1, 3), other |-> Unfused(2, 3)],
      [block |-> "cross_attention_prev_4", stage |-> 4,
       this |-> Main4, other |-> Unfused(0, 4)],
      [block |-> "cross_attention_self_4", stage |-> 4,
       this |-> Main4, other |-> Main4],
      [block |-> "cross_attention_next_4", stage |-> 4,
       this |-> Main4, other |-> Unfused(2, 4)]>>

\* C1: forward applies the cross-slice fusion at stage 3 and at stage 4 and
\* nowhere else.  No non-local block is called before stage 3 is computed;
\* at stage 3 and at stage 4 exactly three are called, prev, self and next
\* in this order, each with the main feature of that stage as x_thisBranch
\* and the previous, main and next feature of that stage as x_otherBranch.
C1_FusionAtStages3And4 ==
    /\ Len(fwd_calls) <= 6
    /\ fwd_calls = SubSeq(SixCalls, 1, Len(fwd_calls))
    /\ fwd_pc \in {"start", "sliced", "stage1", "stage2", "stage3"} => Len(fwd_calls) = 0
    /\ fwd_pc \in {"cross3", "fused3", "stage4"} => Len(fwd_calls) = 3
    /\ fwd_pc \in {"cross4", "fused4", "done"} => Len(fwd_calls) = 6

\* forward has returned for a 512 x 512 input after its six calls.
C1_Witness ==
    /\ fwd_pc = "done"
    /\ fwd_x.shape = <<1, 3, 512, 512>>
    /\ Len(fwd_calls) = 6
    /\ fwd_calls[1].block = "cross_attention_prev_3"
    /\ fwd_calls[6].block = "cross_attention_next_4"

\* C3: the fusion is residual and only the main branch carries it on.  The
\* feature emitted at stage 3 and at stage 4 is
\* double_conv(compress(cat(xt_prev, xt_self, xt_next))) + x_main, x_main the
\* unfused main feature of that stage, of which it keeps the shape; the main
\* branch of stage 4 is computed from the fused feature of stage 3, the
\* previous and next branches of stage 4 from their own unfused features.
C3_ResidualFusionMainOnly ==
    /\ fwd_pc = "cross3" =>
          /\ fwd_main.term = Unfused(1, 3)
          /\ \A i \in 1..3 : fwd_xt[i].shape = fwd_main.shape
    /\ fwd_pc \in {"fused3", "stage4", "cross4", "fused4", "done"} =>
          /\ fwd_features[5].term = Fused3
          /\ fwd_features[5].shape[2] = 320
    /\ fwd_pc = "fused3" =>
          /\ fwd_main = fwd_features[5]
          /\ fwd_main.shape = fwd_xt[1].shape
          /\ fwd_prev.term = Unfused(0, 3)
          /\ fwd_next.term = Unfused(2, 3)
    /\ fwd_pc \in {"stage4", "cross4"} => fwd_main.term = Main4
    /\ fwd_pc \in {"stage4", "cross4", "fused4", "done"} =>
          /\ fwd_prev.term = Unfused(0, 4)
          /\ fwd_next.term = Unfused(2, 4)
    /\ fwd_pc \in {"fused4", "done"} =>
          /\ fwd_features[6].term = Fused4
          /\ fwd_features[6] = fwd_main
          /\ fwd_main.shape = fwd_xt[1].shape
          /\ fwd_main.shape = fwd_prev.shape

\* forward has returned the fused features of a batch of two 512 x 512 inputs.
C3_Witness ==
    /\ fwd_pc = "done"
    /\ fwd_features[5].shape = <<2, 320, 32, 32>>
    /\ fwd_features[6].shape = <<2, 512, 16, 16>>
    /\ fwd_features[6].term = Fused4

\* ceil(n / d)
CeilDiv(n, d) == (n + d - 1) \div d

\* The encoder as its constructor's non-local blocks need it: slices of one
\* channel, 320 channels at stage 3 and 512 at stage 4.
FwdFits ==
    /\ fwd_self.in_chans = 1
    /\ fwd_self.embed_dims[3] = FusionArgs(3).in_channels
    /\ fwd_self.embed_dims[4] = FusionArgs(4).in_channels

\* The stage-3 and stage-4 feature sizes of the input are positive
\* multiples of the window size.
SizesFit ==
    \A side \in {fwd_x.shape[3], fwd_x.shape[4]}, d \in {16, 32} :
        CeilDiv(side, d) > 0 /\ CeilDiv(side, d) % EncWindowSize = 0

\* What forward returns is the list of six features: the input as it was
\* given, a dummy of 0 channels and size (H // 2, W // 2), the main slice
\* after stage 1, the main slice after stage 2, the fused feature of stage 3
\* and the fused feature of stage 4.  No feature of the previous or next
\* slice is in the list.
ReturnsSixFeatures ==
    /\ fwd_pc # "done" => fwd_result = <<>>
    /\ fwd_pc = "done" =>
          /\ Len(fwd_result) = 6
          /\ fwd_result[1] = fwd_x
          /\ fwd_result[1] = Feature(<<"x">>, fwd_x.shape)
          /\ fwd_result[2].shape =
                <<fwd_x.shape[1], 0, fwd_x.shape[3] \div 2, fwd_x.shape[4] \div 2>>
          /\ fwd_result[2].term = <<"empty">>
          /\ fwd_result[3].term = Unfused(1, 1)
          /\ fwd_result[4].term = Unfused(1, 2)
          /\ fwd_result[5].term = Fused3
          /\ fwd_result[6].term = Fused4
          /\ \A i \in 1..Len(fwd_result), c \in {0, 2}, k \in 0..4 :
                fwd_result[i].term # Unfused(c, k)

\* C4 as stated: for every input forward returns the list of six features;
\* it raises on none.
C4_SixFeaturesForEveryInput ==
    /\ fwd_pc # "error"
    /\ ReturnsSixFeatures

\* C4, amended: forward returns exactly on the inputs whose stage-3 and
\* stage-4 sizes are positive multiples of 16, to an encoder of one channel
\* a slice, 320 channels at stage 3 and 512 at stage 4; on those it does not
\* raise and returns the list of six features, whatever the depth
\* argument; on every other input it raises and returns nothing.
C4_SixFeatures ==
    /\ ReturnsSixFeatures
    /\ (FwdFits /\ SizesFit) => fwd_pc # "error"
    /\ fwd_pc = "done" => FwdFits /\ SizesFit
    /\ fwd_pc = "error" => ~(FwdFits /\ SizesFit) /\ fwd_result = <<>>

\* forward of an encoder of depth 3 has returned six features for a
\* 500 x 512 input.
C4_Witness ==
    /\ fwd_pc = "done"
    /\ fwd_self.depth = 3
    /\ FwdFits /\ SizesFit
    /\ fwd_x.shape = <<1, 3, 500, 512>>
    /\ Len(fwd_result) = 6
    /\ fwd_result[2].shape = <<1, 0, 250, 256>>
    /\ fwd_result[3].shape = <<1, 64, 125, 128>>

(***************************************************************************)
(* Claims about trainer_coca                                               *)
(***************************************************************************)

\* The training batches the completed epochs processed.
RECURSIVE TrainedIn(_)
TrainedIn(epochs) ==
    IF epochs = <<>> THEN 0 ELSE Head(epochs).train + TrainedIn(Tail(epochs))

\* The training batches processed so far.
Trained ==
    TrainedIn(tr_epochs) + (IF tr_pc \in {"train", "val", "raised"} THEN tr_i_train ELSE 0)

\* C7: the learning-rate schedule advances by one step for every training
\* batch.  The scheduler's max_steps is max_epochs * len(trainloader); in
\* every state the number of scheduler.step() calls is iter_num, which is
\* the number of training batches processed so far; it never exceeds
\* max_steps, and it is max_steps when trainer_coca returns.
C7_OneSchedulerStepPerBatch ==
    /\ tr_steps.max_steps = tr_args.max_epochs * Len(trainloader)
    /\ tr_steps.scheduler_step = tr_iter_num
    /\ tr_iter_num = Trained
    /\ tr_iter_num = tr_steps.backward
    /\ tr_steps.scheduler_step <= tr_steps.max_steps
    /\ tr_pc = "returned" => tr_steps.scheduler_step = tr_steps.max_steps

\* Three epochs of two batches have been trained and trainer_coca returned.
C7_Witness ==
    /\ tr_pc = "returned"
    /\ tr_args.max_epochs = 3
    /\ Len(trainloader) = 2
    /\ tr_steps.scheduler_step = 6
    /\ tr_steps.max_steps = 6

\* C8: a training iteration makes these calls, each once and in this order:
\* the forward pass, optimizer.zero_grad(), backward, scaler.step(optimizer),
\* scaler.update(), scheduler.step().  So each of them has been made once
\* for every iteration, the gradients the optimizer steps on are those of
\* one backward pass (never accumulated over batches), and the scheduler's
\* step of an iteration follows the optimizer's.
C8_OrderOfATrainingIteration ==
    /\ tr_last.phase = "train" =>
          tr_last.calls = <<"forward", "zero_grad", "backward", "scaler_step",
                            "scaler_update", "scheduler_step">>
    /\ tr_steps.zero_grad = tr_iter_num
    /\ tr_steps.backward = tr_iter_num
    /\ tr_steps.scaler_step = tr_iter_num
    /\ tr_steps.scaler_update = tr_iter_num
    /\ tr_steps.scheduler_step = tr_iter_num
    /\ tr_steps.grads <= 1
    /\ tr_steps.stepped_on = (IF tr_iter_num > 0 THEN 1 ELSE 0)
    /\ tr_steps.scheduler_step <= tr_steps.scaler_step

\* The second training iteration of a run has just ended.
C8_Witness ==
    /\ tr_pc = "train"
    /\ tr_last.phase = "train"
    /\ tr_iter_num = 2
    /\ tr_steps.zero_grad = 2
    /\ tr_steps.stepped_on = 1
    /\ Len(tr_last.calls) = 6

\* The mean validation losses of the epochs whose validation is complete.
ValLosses == tr_writer.val_loss

\* The epochs whose loss is strictly below every earlier epoch's.
RecordEpochs ==
    {e \in 1..Len(ValLosses) : \A d \in 1..(e - 1) : LossLess(ValLosses[e], ValLosses[d])}

\* The positions in tr_fs of the saves of a best model.
BestSaves ==
    {i \in 1..Len(tr_fs) : tr_fs[i][1] = "save" /\ tr_fs[i][2].suffix = "_best_model.pth"}

BestFiles == {f \in tr_files : f.suffix = "_best_model.pth"}

\* C9: best-model checkpointing.  In every state best_val_loss is the
\* least mean validation loss of the epochs whose validation is complete,
\* infinity before the first; a best model has been saved once in each
\* epoch whose loss is strictly below every earlier epoch's and in no other
\* (a tie keeps the earlier epoch); before a best model is saved the one
\* saved before it is removed; so at most one best model of the run exists
\* at any time, and once an epoch is complete it is that of the earliest
\* epoch with the least loss.
C9_BestModelCheckpoint ==
    /\ ValLosses = <<>> => tr_best_val_loss = Inf /\ BestFiles = {}
    /\ ValLosses # <<>> =>
          /\ \E e \in 1..Len(ValLosses) : ValLosses[e] = tr_best_val_loss
          /\ \A e \in 1..Len(ValLosses) : ~LossLess(ValLosses[e], tr_best_val_loss)
    /\ {tr_fs[i][2].epoch : i \in BestSaves} = RecordEpochs
    /\ Cardinality(BestSaves) = Cardinality(RecordEpochs)
    /\ \A i \in BestSaves :
          (\E j \in BestSaves : j < i) =>
              /\ i > 1
              /\ tr_fs[i - 1][1] = "remove"
              /\ \E j \in BestSaves :
                    /\ j < i - 1
                    /\ tr_fs[j][2] = tr_fs[i - 1][2]
                    /\ \A k \in BestSaves : k < i => k <= j
    /\ Cardinality(BestFiles) <= 1
    /\ ValLosses # <<>> =>
          LET first == CHOOSE e \in 1..Len(ValLosses) :
                          /\ ValLosses[e] = tr_best_val_loss
                          /\ \A d \in 1..(e - 1) : ValLosses[d] # tr_best_val_loss
          IN  /\ BestFiles = {tr_best_model_path}
              /\ tr_best_model_path.epoch = first
              /\ tr_best_model_path.loss = Fmt4(ValLosses[first])

\* Three epochs of losses 2, 1, 1: the best model is that of epoch 2, saved
\* after that of epoch 1 was removed, and the tie of epoch 3 left it.
C9_Witness ==
    /\ tr_pc = "returned"
    /\ ValLosses = <<Loss(2, 1), Loss(1, 1), Loss(1, 1)>>
    /\ tr_best_model_path = BestModelPath(2, Loss(1, 1))
    /\ BestFiles = {BestModelPath(2, Loss(1, 1))}
    /\ Len(tr_fs) = 4
    /\ tr_fs[2] = <<"remove", BestModelPath(1, Loss(2, 1))>>

\* The positions in tr_fs of the saves of a final model.
FinalSaves ==
    {i \in 1..Len(tr_fs) : tr_fs[i][1] = "save" /\ tr_fs[i][2].suffix = ".pth"}

\* C10: for non-empty train and validation loaders trainer_coca ends by
\* returning "Training Finished!", after max_epochs epochs of one pass over
\* the training loader and one over the validation loader each, the writer
\* closed; the final model is saved once, in epoch max_epochs after its
\* validation, under a name no best model has, and no best model is removed
\* for it.
C10_TerminatesAfterMaxEpochs ==
    /\ tr_pc # "raised"
    /\ Len(tr_epochs) <= tr_args.max_epochs
    /\ \A e \in 1..Len(tr_epochs) :
          tr_epochs[e] = [train |-> Len(trainloader), val |-> Len(valloader)]
    /\ Len(tr_epochs) < tr_args.max_epochs => FinalSaves = {}
    /\ Len(tr_epochs) = tr_args.max_epochs =>
          /\ Cardinality(FinalSaves) = 1
          /\ FinalSaves = {Len(tr_fs)}
          /\ tr_fs[Len(tr_fs)][2].epoch = tr_args.max_epochs
          /\ tr_fs[Len(tr_fs)][2] \in tr_files
          /\ tr_fs[Len(tr_fs)][2] # tr_best_model_path
          /\ tr_best_model_path \in tr_files
    /\ tr_pc = "returned" =>
          /\ Len(tr_epochs) = tr_args.max_epochs
          /\ ~tr_writer.open
          /\ tr_result = "Training Finished!"
    /\ tr_pc # "returned" => tr_writer.open /\ tr_result = "none"

(***************************************************************************)
(* Claims about MixVisionTransformer.__init__ and Attention.forward        *)
(***************************************************************************)

\* The blocks built so far, stage after stage: the block of global index k
\* is AllBlocks[k + 1].
AllBlocks ==
    LET RECURSIVE cat(_)
        cat(n) == IF n = 0 THEN <<>> ELSE cat(n - 1) \o dpr_blocks[n]
    IN  cat(Len(dpr_blocks))

\* The k-th of n evenly spaced rates from 0 to rate, k = 0 .. n - 1.
EvenlySpaced(rate, n, k) ==
    IF n = 1 THEN Rate(0, 1) ELSE Rate(rate.num * k, rate.den * (n - 1))

\* C11: at construction the block of global index k, counting the blocks
\* of stages 1 to 4 in order, receives the k-th of sum(depths) evenly spaced
\* rates from 0 to drop_path_rate; the rates of the blocks are
\* non-decreasing, the first block has rate 0, the last one (of two blocks
\* or more) drop_path_rate, all sum(depths) blocks are there once the four
\* stages are built, a block of rate 0 has an identity for its drop path,
\* and a drop-path module drops at the rate its block received until
\* reset_drop_path assigns another.
C11_DropPathRatesLinear ==
    LET n == Sum(dpr_args.depths)
        blocks == AllBlocks
    IN  /\ \A j \in 1..Len(blocks) :
              /\ RateEq(blocks[j].drop_path_arg,
                        EvenlySpaced(dpr_args.drop_path_rate, n, j - 1))
              /\ j > 1 => RateLeq(blocks[j - 1].drop_path_arg, blocks[j].drop_path_arg)
              /\ blocks[j].drop_path_arg.num = 0 => blocks[j].drop_path.module = "Identity"
              /\ blocks[j].drop_path_arg.num > 0 => blocks[j].drop_path.module = "DropPath"
              /\ (blocks[j].drop_path.module = "DropPath" /\ dpr_pc # "reset")
                    => RateEq(blocks[j].drop_path.drop_prob, blocks[j].drop_path_arg)
        /\ Len(blocks) >= 1 => blocks[1].drop_path_arg.num = 0
        /\ dpr_pc \in {"block4", "reset"} =>
              /\ Len(blocks) = n
              /\ \A k \in 1..4 : Len(dpr_blocks[k]) = dpr_args.depths[k]
              /\ n >= 2 => RateEq(blocks[n].drop_path_arg, dpr_args.drop_path_rate)

\* The four stages are built, each of two blocks, with a positive
\* drop_path_rate: stage 2 starts at the third rate, and the last block
\* drops paths at drop_path_rate.
C11_Witness ==
    /\ dpr_pc = "block4"
    /\ dpr_args.depths = <<2, 2, 2, 2>>
    /\ dpr_args.drop_path_rate.num > 0
    /\ dpr_blocks[1][1].drop_path.module = "Identity"
    /\ dpr_blocks[2][1].drop_path.module = "DropPath"
    /\ RateEq(dpr_blocks[2][1].drop_path_arg,
              Rate(2 * dpr_args.drop_path_rate.num, 7 * dpr_args.drop_path_rate.den))
    /\ RateEq(dpr_blocks[4][2].drop_path.drop_prob, dpr_args.drop_path_rate)

\* The tokens of a tensor (B, heads, tokens, head_dim) or (B, tokens, C).
TokensOf(f) == IF Len(f.shape) = 4 THEN f.shape[3] ELSE f.shape[2]

\* The keys and values are made of x_: n tokens, reduced by self.sr exactly
\* when sr_ratio > 1.
KeysValuesFrom(n) ==
    /\ att_x_.ok /\ att_x_.shape = <<att_x.shape[1], n, att_x.shape[3]>>
    /\ att_x_.term = IF att_self.sr_ratio > 1 THEN <<"norm", "sr", "x">> ELSE <<"x">>
    /\ att_pc \in {"kv", "attn", "done"} =>
          /\ att_kv.ok /\ att_kv.term = <<"kv">> \o att_x_.term
          /\ att_kv.shape = <<2, att_x.shape[1], att_self.num_heads, n,
                               att_self.dim \div att_self.num_heads>>
    /\ att_pc \in {"attn", "done"} =>
          /\ att_attn.ok
          /\ att_attn.shape = <<att_x.shape[1], att_self.num_heads, att_x.shape[2], n>>

\* The claim as it stands, C12: whatever H and W are, forward returns, the
\* keys and values being floor(H/sr_ratio) * floor(W/sr_ratio) tokens (all
\* N tokens when sr_ratio = 1) and the output of the shape of the input.
C12_AlwaysReturnsInputShape ==
    att_pc \in {"done", "error"} =>
        /\ att_pc = "done"
        /\ KeysValuesFrom(IF att_self.sr_ratio > 1
                          THEN (att_HW[1] \div att_self.sr_ratio)
                                * (att_HW[2] \div att_self.sr_ratio)
                          ELSE att_x.shape[2])
        /\ att_out.ok /\ att_out.shape = att_x.shape

\* C12, amended: forward raises in self.sr exactly when sr_ratio > 1 and H
\* or W is smaller than sr_ratio; otherwise the queries number N, the keys
\* and values are computed from floor(H/sr_ratio) * floor(W/sr_ratio)
\* reduced tokens when sr_ratio > 1 and from all N tokens of x when
\* sr_ratio = 1, and the output has the shape (B, N, C) of the input.
C12_KeysValuesReduced ==
    LET r == att_self.sr_ratio
        small == r > 1 /\ (att_HW[1] < r \/ att_HW[2] < r)
    IN  /\ att_pc = "error" => small
        /\ att_pc \in {"x_", "kv", "attn", "done"} =>
              /\ ~small
              /\ att_q.ok /\ TokensOf(att_q) = att_x.shape[2]
              /\ att_q.term = <<"q", "x">>
              /\ KeysValuesFrom(IF r > 1 THEN (att_HW[1] \div r) * (att_HW[2] \div r)
                                ELSE att_x.shape[2])
        /\ att_pc = "done" => att_out.ok /\ att_out.shape = att_x.shape

\* Stage 2 (sr_ratio 4) on a 9 x 5 map: 45 queries, 2 x 1 keys; and the
\* output has the shape of the input.
C12_Witness ==
    /\ att_pc = "done"
    /\ att_self.sr_ratio = 4
    /\ att_HW = <<9, 5>>
    /\ TokensOf(att_q) = 45
    /\ TokensOf(att_x_) = 2
    /\ att_attn.shape[4] = 2
    /\ att_out.shape = <<att_x.shape[1], 45, 128>>

(***************************************************************************)
(* Claims about what NonLocalBlock.forward depends on                      *)
(***************************************************************************)

\* The elements of the feature maps a row element of query, key or value
\* is computed from: the channels of its pixel, none for a global token.
InputsOf(e) == {e.inp[c] : c \in DOMAIN e.inp}

\* The elements of the feature maps an element of out (of x_un) is computed
\* from: those of the value rows it sums, and those of the query and the
\* key rows scored in the attention weights it sums them with.
DependsOn(el) ==
    UNION {InputsOf(el[j][2])
             \cup UNION {InputsOf(qk[1]) \cup InputsOf(qk[2])
                           : qk \in {el[j][1].score[d] : d \in DOMAIN el[j][1].score}}
           : j \in DOMAIN el}

\* The elements of feature map x in the window of pixel (h, w) of batch
\* element b.
WindowOf(x, b, h, w, ws) ==
    {At(x, <<b, c, y, xx>>) :
        c \in 0..(x.shape[2] - 1),
        y \in ((h \div ws) * ws)..((h \div ws) * ws + ws - 1),
        xx \in ((w \div ws) * ws)..((w \div ws) * ws + ws - 1)}

\* C13: windowed attention never crosses window or batch boundaries: the
\* element of x_un at (b, c, h, w) is computed from the global tokens and
\* from the elements of x_thisBranch and x_otherBranch of batch element b
\* in the window of (h, w), and from no other element of either input; its
\* attention weights are all normalised over one row of that window.
C13_AttentionStaysInWindow ==
    nl_pc = "done" =>
        LET ws == nl_self.window_size
        IN  \A b \in 0..(nl_x_un.shape[1] - 1), c \in 0..(nl_x_un.shape[2] - 1),
               h \in 0..(nl_x_un.shape[3] - 1), w \in 0..(nl_x_un.shape[4] - 1) :
               LET el == At(nl_x_un, <<b, c, h, w>>)
               IN  /\ DependsOn(el) \subseteq
                         WindowOf(nl_this, b, h, w, ws) \cup WindowOf(nl_other, b, h, w, ws)
                   /\ Len(el) = nl_self.num_global_tokens + ws * ws
                   /\ \A j \in DOMAIN el :
                         /\ el[j][1].over = el[1][1].over
                         /\ el[j][2].conv \in {"global_tokens", "value_conv"}
                         /\ \A d \in DOMAIN el[j][1].score :
                               /\ el[j][1].score[d][1].conv \in {"global_tokens", "query_conv"}
                               /\ el[j][1].score[d][2].conv \in {"global_tokens", "key_conv"}

\* forward has returned on two different branches of two batch elements of
\* 2 x 2 windows each: the element at pixel (1, 2) of batch element 1 is
\* computed from all of its window of x_thisBranch (rows 0-1, columns 2-3),
\* from its own pixel of x_otherBranch, and from nothing else, so not from
\* the window next to it nor from the same window of batch element 0.
C13_Witness ==
    /\ nl_pc = "done"
    /\ nl_other # nl_this
    /\ nl_this.shape = <<2, 2, 4, 4>>
    /\ nl_self.window_size = 2
    /\ DependsOn(At(nl_x_un, <<1, 0, 1, 2>>))
          = WindowOf(nl_this, 1, 1, 2, 2)
              \cup {At(nl_other, <<1, c, 1, 2>>) : c \in 0..1}
    /\ At(nl_this, <<1, 0, 1, 1>>) \notin DependsOn(At(nl_x_un, <<1, 0, 1, 2>>))
    /\ At(nl_this, <<0, 0, 1, 2>>) \notin DependsOn(At(nl_x_un, <<1, 0, 1, 2>>))

\* Channel c of global token g, as GlobalTokensParam names it.
GlobalToken(g, c) == [conv |-> "global_tokens", oc |-> c, tok |-> g, inp |-> <<>>]

\* C15: global tokens are split across heads by the channel-to-head mapping
\* of queries, keys and values: for every head h and token g, the row at
\* sequence position g of head h of query, key and value, in every window,
\* consists of channels h*head_dim .. (h+1)*head_dim - 1 of global token g.
C15_TokensSplitLikeChannels ==
    nl_pc \in {"tokens", "attended", "stripped", "done"} =>
        \A bw \in 0..(nl_query.shape[1] - 1), h \in 0..(nl_self.num_heads - 1),
           g \in 0..(nl_self.num_global_tokens - 1), d \in 0..(nl_self.head_dim - 1) :
           /\ At(nl_query, <<bw, h, g, d>>) = GlobalToken(g, h * nl_self.head_dim + d)
           /\ At(nl_key, <<bw, h, g, d>>) = GlobalToken(g, h * nl_self.head_dim + d)
           /\ At(nl_value, <<bw, h, g, d>>) = GlobalToken(g, h * nl_self.head_dim + d)

(***************************************************************************)
(* Claims about what MixVisionTransformerSAEncoder.forward depends on and  *)
(* about the inputs it takes                                               *)
(***************************************************************************)

\* The slices of the input a feature is computed from.
SlicesIn(f) == {SliceNames[c] : c \in {c \in 1..3 : \E i \in DOMAIN f.term : f.term[i] = SliceNames[c]}}

\* C14: the stage-1 and stage-2 outputs depend on the current slice only:
\* features[2] and features[3] are computed from channel 1 of the input and
\* from no other channel (so they agree for two inputs that agree on
\* channel 1), the dummy features[1] from no channel at all, while
\* features[4] and features[5] are computed from all three slices;
\* features[0] is the input itself.  (Sequences count from 1: features[k]
\* is fwd_features[k + 1].)
C14_EarlyStagesCurrentSliceOnly ==
    LET n == Len(fwd_features)
    IN  /\ n >= 1 => fwd_features[1] = fwd_x
        /\ n >= 2 => SlicesIn(fwd_features[2]) = {}
        /\ n >= 3 => /\ SlicesIn(fwd_features[3]) = {SliceNames[2]}
                     /\ fwd_features[3].term = Unfused(1, 1)
        /\ n >= 4 => /\ SlicesIn(fwd_features[4]) = {SliceNames[2]}
                     /\ fwd_features[4].term = Unfused(1, 2)
        /\ n >= 5 => SlicesIn(fwd_features[5]) = {SliceNames[1], SliceNames[2], SliceNames[3]}
        /\ n >= 6 => SlicesIn(fwd_features[6]) = {SliceNames[1], SliceNames[2], SliceNames[3]}
        /\ fwd_pc = "done" => fwd_result = fwd_features /\ Len(fwd_result) = 6

\* forward has returned its six features for a 512 x 512 input: the second
\* and third stage outputs name the current slice alone, the fused ones
\* the three slices.
C14_Witness ==
    /\ fwd_pc = "done"
    /\ fwd_x.shape = <<2, 3, 512, 512>>
    /\ SlicesIn(fwd_result[3]) = {"x[:,1:2]"}
    /\ SlicesIn(fwd_result[4]) = {"x[:,1:2]"}
    /\ "x[:,0:1]" \in SlicesIn(fwd_result[5])
    /\ "x[:,2:3]" \in SlicesIn(fwd_result[6])

\* forward ended in the window_partition of the first non-local block of
\* stage 3 or of stage 4: x_main is the output of that stage, not fused,
\* and does not divide into windows.
RaisedInWindowPartition ==
    /\ fwd_pc = "error"
    /\ fwd_main.ok
    /\ fwd_main.term[1] \in {StageNames[3][1], StageNames[4][1]}
    /\ WindowsShape(fwd_main.shape, EncWindowSize) = <<>>

\* forward ended in stage 1: the slices are as they were cut.
RaisedInStage1 ==
    /\ fwd_pc = "error"
    /\ fwd_main = Slice(fwd_x, 1)
    /\ Len(fwd_features) = 2

\* The claim as it stands, C16: forward completes for an H x W input
\* exactly when the stage-3 size (ceil(H/16), ceil(W/16)) and the stage-4
\* size (ceil(H/32), ceil(W/32)) are positive multiples of 16, and for
\* every other size it is window_partition that raises.
C16_OnlyWindowPartitionRaises ==
    FwdFits =>
        /\ fwd_pc = "done" => SizesFit
        /\ fwd_pc = "error" => ~SizesFit /\ RaisedInWindowPartition

\* C16, amended: forward completes exactly when the stage-3 and stage-4
\* sizes are positive multiples of 16; for every other size it raises, in
\* the spatial reduction of stage 1 (a convolution of kernel 8 on a map of
\* ceil(H/4) x ceil(W/4)) when H or W is at most 28, and in
\* window_partition otherwise; no row or column is dropped or padded.
C16_SizePrecondition ==
    FwdFits =>
        /\ fwd_pc = "done" =>
              /\ SizesFit
              /\ \A k \in 5..6 :
                    /\ fwd_result[k].shape[3] = CeilDiv(fwd_x.shape[3], 2 ^ (k - 1))
                    /\ fwd_result[k].shape[4] = CeilDiv(fwd_x.shape[4], 2 ^ (k - 1))
        /\ fwd_pc = "error" =>
              /\ ~SizesFit
              /\ IF fwd_x.shape[3] <= 28 \/ fwd_x.shape[4] <= 28
                 THEN RaisedInStage1
                 ELSE RaisedInWindowPartition
        /\ (SizesFit /\ fwd_pc # "start") => fwd_main.ok

\* forward has returned for a 512 x 497 input (stage 3 at 32 x 32, stage 4
\* at 16 x 16).
C16_Witness ==
    /\ fwd_pc = "done"
    /\ FwdFits
    /\ fwd_x.shape[3] = 512 /\ fwd_x.shape[4] = 497
    /\ fwd_result[5].shape = <<fwd_x.shape[1], 320, 32, 32>>
    /\ fwd_result[6].shape = <<fwd_x.shape[1], 512, 16, 16>>

(***************************************************************************)
(* Claims about the validation phase and the image logging of trainer_coca *)
(***************************************************************************)

\* The calls that change the training state.
TrainingOps == {"zero_grad", "backward", "scaler_step", "scaler_update", "scheduler_step"}

\* How often the calls that change the training state have been made.
TrainingCounts == [op \in TrainingOps |-> tr_steps[op]]

\* The mode is right in every state: train mode while and after a training
\* batch is processed, eval mode in the validation loop, and a validation
\* batch makes no call but the forward pass.
ModesRight ==
    /\ tr_pc \in {"train", "raised"} => tr_mode = "train"
    /\ tr_pc = "val" => tr_mode = "eval"
    /\ tr_last.phase = "train" => tr_last.mode = "train"
    /\ tr_last.phase = "val" =>
          /\ tr_last.mode = "eval"
          /\ \A i \in DOMAIN tr_last.calls : tr_last.calls[i] \notin TrainingOps

\* What every step keeps to: a step taken in the validation phase leaves
\* the counts of the training calls, the gradients and iter_num alone, the
\* step that begins an epoch leaves the model in train mode, and a batch is
\* processed in the mode of its loop.
ValidationKeeps ==
    /\ tr_pc = "val" =>
          /\ TrainingCounts' = TrainingCounts
          /\ tr_iter_num' = tr_iter_num
          /\ tr_steps'.grads = tr_steps.grads
    /\ (tr_pc = "epoch" /\ tr_pc' = "train") => tr_mode' = "train"
    /\ (tr_pc = "train" /\ tr_i_train' = tr_i_train + 1) =>
          (tr_last'.phase = "train" /\ tr_last'.mode = "train")
    /\ (tr_pc = "val" /\ tr_i_val' = tr_i_val + 1) =>
          (tr_last'.phase = "val" /\ tr_last'.mode = "eval")

\* C17: the validation phase is read-only with respect to training state.
\* No step taken between model.eval() and the end of the validation loop
\* makes an optimizer.zero_grad, backward, scaler.step, scaler.update or
\* scheduler.step or changes iter_num; every training batch is processed in
\* train mode and every validation batch in eval mode; and the step that
\* begins an epoch leaves the model in train mode before its first batch.
C17_ValidationReadOnly == []ModesRight /\ [][ValidationKeeps]_vars

\* The second validation batch of the second epoch has been processed, in
\* eval mode and after a first epoch that left the model in eval mode; the
\* forward passes outnumber the backward passes by the validation batches.
C17_Witness ==
    /\ tr_pc = "val"
    /\ tr_epoch_num = 2
    /\ tr_i_val = 2
    /\ tr_last = [phase |-> "val", mode |-> "eval", calls |-> <<"forward">>]
    /\ tr_iter_num = 2 * Len(trainloader)
    /\ tr_steps.scheduler_step = tr_iter_num
    /\ tr_steps.forward = tr_iter_num + 4

\* The images written up to iteration n: one at every positive multiple of
\* 50, each of the sample at index 1 of its batch.
ImagesUpTo(n) == [k \in 1..(n \div 50) |-> [step |-> 50 * k, sample |-> 1]]

\* The images of every state, and the state trainer_coca is left in when
\* the logging raised.
ImagesRight ==
    /\ tr_pc # "raised" => tr_writer.images = ImagesUpTo(tr_iter_num)
    /\ tr_pc = "raised" =>
          /\ tr_iter_num > 0 /\ tr_iter_num % 50 = 0
          /\ trainloader[tr_i_train] < 2
          /\ tr_writer.images = ImagesUpTo(tr_iter_num - 50)
          /\ Len(tr_epochs) = tr_epoch_num - 1
          /\ \A f \in tr_files : f.epoch < tr_epoch_num
          /\ tr_result = "none"
    /\ (tr_pc = "train" /\ tr_i_train >= 1 /\ tr_iter_num % 50 = 0) =>
          trainloader[tr_i_train] >= 2

\* C18: training images are logged exactly at the iterations whose global
\* counter iter_num, after the increment, is a positive multiple of 50, and
\* the sample read is the one at batch index 1; a training batch of fewer
\* than 2 samples at such an iteration raises and ends trainer_coca there:
\* no step follows, the validation of that epoch is not run, no checkpoint
\* of that epoch is written and nothing is returned.
C18_ImagesEveryFiftyIterations == []ImagesRight /\ [][tr_pc # "raised"]_vars

\* The 50th iteration is the last batch of the second epoch of 49 samples
\* in batches of two: a batch of one sample, on which the logging raised.
C18_Witness ==
    /\ tr_pc = "raised"
    /\ tr_args.len_train = 49 /\ tr_args.batch_size = 2
    /\ tr_epoch_num = 2
    /\ tr_iter_num = 50
    /\ trainloader[tr_i_train] = 1
    /\ tr_writer.images = <<>>
    /\ Len(tr_epochs) = 1

====
